---- MODULE Spec2Model ----
(***************************************************************************)
(* Diagram synchronization and editing model of the task/incident tracker. *)
(* One browser session: Layout (item list, selection, last patch) and the  *)
(* FlowDiagram it renders (nodes, edges, loading/error, debounced position *)
(* writer), plus the entity store behind the HTTP API.                     *)
(* Time is counted in ticks of 100 ms; Date.now() is read off the same     *)
(* clock, so two reads within one tick give the same value.                *)
(***************************************************************************)
EXTENDS Integers, Sequences, FiniteSets, TLC

\* ------------------------------------------------------------------ bounds
MaxTime == 10
MaxLoads == 3
MaxDrags == 3
MaxSyncDrags == 1
MaxPatches == 1
MaxConnects == 2
MaxConnectTime == 2
MaxGestureConnects == 1
MaxEdgeOps == 2
MaxToggles == 2
MaxPureLen == 2
MaxEdits == 2
MaxStoreOps == 3
MaxPosts == 3
\* batch position requests, and entries in one request
MaxBatches == 2
MaxBatchLen == 3
\* sockets the service makes, and connect() calls of the layouts
MaxSockets == 6
MaxAppConnects == 2
\* connections that come up
MaxOpens == 3
\* on, off and emit calls
MaxListenerOps == 4

\* ------------------------------------------------------- program constants
\* setTimeout(..., 500) of the position writer, in ticks of 100 ms
QuietPeriod == 5

\* the stroke and the width the diagram gives an edge
DefaultStroke == "#4a90e2"
DefaultStrokeWidth == 20

\* item.position || { x: 0, y: 0 }
DefaultPos == <<0, 0>>
\* GRID_COLS, GRID_SIZE and the row height of autoLayoutNodes
GridCols == 4
GridSize == 300
GridRowHeight == 200
\* an item that carries no position
NoPos == <<>>

\* a coordinate that is not a number (typeof x !== 'number')
NotANumber == -1

\* this.socket = null
NoSocket == 0
\* config.maxReconnectAttempts || 5
DefaultMaxReconnectAttempts == 5

\* ----------------------------------------------------------- input domains
TaskIds == {"t1", "t2", "t3"}
DragPositions == {<<50, 60>>, <<120, 80>>}
SyncDragPositions == {<<120, 80>>}
\* a drag-end whose x is not a number
BadPos == <<NotANumber, 80>>
CompletedIds == {"t1"}
\* a colour and a width the edge modal hands to handleEdgeUpdate
UpdateStrokes == {"#dc3545"}
ModalWidth == 22
\* arguments for the projector and the reconciler applied on their own:
\* node lists of up to MaxPureLen nodes (data tells rendered from fresh),
\* and stored edges with and without style and status
PureIds == {"t1", "t2"}
PurePositions == {<<50, 60>>, DefaultPos}
PureNodes(tag) == [id : PureIds, position : PurePositions, data : {tag}]
PureNodeLists(tag) == UNION {[1..n -> PureNodes(tag)] : n \in 0..MaxPureLen}
PureEdge == [id |-> "e1", source |-> "t1", target |-> "t2"]
PureEdges ==
  { PureEdge,
    PureEdge @@ [style |-> [stroke |-> "#dc3545"]],
    PureEdge @@ [style |-> [strokeWidth |-> ModalWidth]],
    PureEdge @@ [style |-> [stroke |-> "#dc3545", strokeWidth |-> ModalWidth]],
    PureEdge @@ [style |-> [stroke |-> DefaultStroke, strokeWidth |-> DefaultStrokeWidth]],
    PureEdge @@ [status |-> "pending"] }
\* the handles of TaskNode a connection is drawn between
SourceHandles == {"right", "bottom"}
TargetHandles == {"left"}
\* position: req.body.position || { x: 100, y: 100 } of POST /api/tasks
CreatedPos == <<100, 100>>
\* the placeholder id of Layout.handleCreateTask
TempId == "task-temp"

NoId == "none"
\* no pure function has been applied
NoCall == [fn |-> "none"]
\* assignedTo: '' and the label a node shows for an item assigned to nobody
NoUser == ""
Unassigned == "Sin asignar"
\* the users and their names
UserIds == {"u1"}
UserNames == [u \in UserIds |-> "Ana"]

NoTask == [id |-> NoId, task_type |-> "task", rev |-> 0, status |-> "pending",
           position |-> NoPos, deleted |-> FALSE, isNew |-> FALSE,
           assignedTo |-> NoUser, assigneeName |-> "", archived |-> FALSE]

\* the store as install/seed leave it: task t1 has been positioned and is
\* assigned to u1, incident t2 never was positioned and is assigned to nobody
InitialItems ==
  << [id |-> "t1", task_type |-> "task", rev |-> 0, status |-> "pending",
       position |-> <<50, 60>>, deleted |-> FALSE, isNew |-> FALSE,
       assignedTo |-> "u1", assigneeName |-> "Ana", archived |-> FALSE],
     [id |-> "t2", task_type |-> "incident", rev |-> 0, status |-> "pending",
       position |-> NoPos, deleted |-> FALSE, isNew |-> FALSE,
       assignedTo |-> NoUser, assigneeName |-> "", archived |-> FALSE] >>

\* stored items for the projector followed by the grid pass
PureItems == {[InitialItems[1] EXCEPT !.id = id, !.position = position] :
                id \in PureIds, position \in {<<50, 60>>, NoPos}}
PureItemLists == UNION {[1..n -> PureItems] : n \in 0..MaxPureLen}

VARIABLES
  now,             \* clock, ticks of 100 ms
  storeTasks,      \* entity store: sequence of work items
  storeEdges,      \* entity store: set of edge records
  layoutLoading,   \* Layout.loading
  tasks,           \* Layout.tasks (passed to FlowDiagram as prop)
  selectedTask,    \* Layout.selectedTask (NoTask when null)
  lastUpdatedTask, \* Layout.lastUpdatedTask (prop updatedTask, NoTask when null)
  mounted,         \* FlowDiagram is mounted
  nodes,           \* FlowDiagram nodes
  edges,           \* FlowDiagram edges
  loading,         \* FlowDiagram loading
  error,           \* FlowDiagram error is set
  loads,           \* loadFlowData calls awaiting their fetches
  nLoads,          \* number of loadFlowData calls so far
  loadOutcome,     \* history: how the most recently started load ended
  edgeReqs,        \* createEdge requests in flight
  nConnects,       \* number of connect gestures so far
  timers,          \* pending setTimeout handles of the position writer
  timeoutRef,      \* positionUpdateTimeoutRef.current (0 when null)
  nTimers,         \* number of timers created so far
  writesInFlight,  \* updateTaskPositions requests awaiting their response
  writeLog,        \* history: position writes sent, with send time
  events,          \* Change Channel: task_completed broadcasts not yet delivered
  drawerResp,      \* TaskDrawer: the response its onTaskUpdate call will carry
  nPatches,        \* number of drawer commits so far
  created,         \* ids the store has generated for new items
  assigned,        \* history: last position assigned to each item
  sinceFlush,      \* history: drag-end positions since the last write
  dragLog,         \* history: the drag-ends, with their time
  createFailed,    \* history: ids of the edges whose create request failed, in order
  lastConnect,     \* history: the last connect gesture, with its time
  showIncidents,   \* FlowDiagram prop showIncidents
  nToggles,        \* number of changes of showIncidents so far
  edgeOps,         \* updateEdge / deleteEdge requests in flight
  nEdgeOps,        \* number of edge update and delete gestures so far
  edgeOpLog,       \* history: the edge updates and deletes that were answered
  pureIn,          \* the arguments of the last application of a pure function
  pureOut,         \* its result
  users,           \* Layout.users (passed to FlowDiagram as prop): ids of the users
  storeUsers,      \* entity store: ids of the users
  isTaskDrawerOpen, \* Layout.isTaskDrawerOpen
  editedTask,      \* TaskDrawer.editedTask (NoTask when null)
  hasChanges,      \* TaskDrawer.hasChanges
  closedDirty,     \* history: the drawer was closed over edits it had not saved
  nEdits,          \* number of edits in the drawer so far
  listing,         \* the last answer of GET /api/tasks
  listingQuery,    \* its query
  nStoreOps,       \* number of requests made to the store on their own
  edgeColl,        \* server: the documents of the edges collection, in insertion order
  posts,           \* server: POST /api/edges requests being handled
  nPosts,          \* number of POST /api/edges requests so far
  postLog,         \* history: the answers to the POST /api/edges requests
  batchReq,        \* the body of the batch position request being handled
  batchPending,    \* indices of its entries whose tasks.update awaits its callback
  completed,       \* the handler's completed counter
  errors,          \* the handler's errors array
  batchFailed,     \* history: indices of the entries that failed
  batchResponses,  \* history: the responses sent for the request
  batchBroadcasts, \* history: the tasks_positions_updated events emitted for it
  nBatches,        \* number of batch position requests so far
  svcBuild,        \* which WebSocketService the page was built with
  mockMode,        \* WebSocketService.mockMode
  maxReconnectAttempts, \* WebSocketService.maxReconnectAttempts
  reconnectAttempts,    \* WebSocketService.reconnectAttempts
  sockets,         \* the sockets the service made that have not closed
  socket,          \* WebSocketService.socket (NoSocket when null)
  isConnected,     \* WebSocketService.isConnected
  reconnectTimers, \* pending setTimeout calls of attemptReconnect
  nSockets,        \* number of sockets made so far
  nAppConnects,    \* number of connect() calls of the layouts so far
  nOpens,          \* number of connections that came up so far
  lastSocketEvent, \* history: the last event a socket delivered
  listeners,       \* WebSocketService.listeners.get(eventType), for one eventType
  atStart,         \* history: the listeners when the last emit started
  invoked,         \* history: the listeners the last emit invoked, in order
  nListenerOps     \* number of on, off and emit calls so far

vars == << now, storeTasks, storeEdges, layoutLoading, tasks, selectedTask,
           lastUpdatedTask, mounted, nodes, edges, loading, error, loads,
           nLoads, loadOutcome, edgeReqs, nConnects, timers, timeoutRef, nTimers,
           writesInFlight, writeLog, events, drawerResp, nPatches, created, assigned, sinceFlush,
           dragLog, createFailed, lastConnect, showIncidents, nToggles, edgeOps, nEdgeOps,
           edgeOpLog, pureIn, pureOut, users, storeUsers, isTaskDrawerOpen,
           editedTask, hasChanges, closedDirty, nEdits,
           listing, listingQuery, nStoreOps, edgeColl, posts, nPosts, postLog,
           batchReq, batchPending, completed, errors, batchFailed,
           batchResponses, batchBroadcasts, nBatches,
           svcBuild, mockMode, maxReconnectAttempts, reconnectAttempts, sockets,
           socket, isConnected, reconnectTimers, nSockets, nAppConnects,
           nOpens, lastSocketEvent, listeners, atStart, invoked, nListenerOps >>

\* ------------------------------------------------------------------ helpers
Range(s) == {s[i] : i \in 1..Len(s)}
IdsOf(s) == {s[i].id : i \in 1..Len(s)}
MapSeq(s, F(_)) == [i \in 1..Len(s) |-> F(s[i])]
Last(s) == s[Len(s)]

\* the rendering surface is on screen: neither the spinner nor the error panel
Ready == mounted /\ ~loading /\ ~error

\* ------------------------------------------------------- Graph Projector
\* the assigneeName a node shows: the name of the assigned user when the
\* user list holds them, else the label
nameFor(assignedTo, userList) ==
  IF assignedTo # NoUser /\ assignedTo \in userList
    THEN UserNames[assignedTo] ELSE Unassigned

\* the data of a node with isIncident never set
nodeData_plain(item, userList) ==
  [field \in DOMAIN item \cup {"isIncident"} |->
     IF field = "isIncident" THEN FALSE
     ELSE IF field = "assigneeName" THEN nameFor(item.assignedTo, userList)
     ELSE item[field]]

\* the data of a node: the fields of the item, the name of its assignee
\* looked up in the users, and isIncident derived from its task_type
nodeData(item, userList) ==
  [field \in DOMAIN item \cup {"isIncident"} |->
     IF field = "isIncident" THEN item.task_type = "incident"
     ELSE IF field = "assigneeName" THEN nameFor(item.assignedTo, userList)
     ELSE item[field]]

\* createNodesAndEdges, node part: one node per item, in input order
createNode(item, userList) ==
  [id |-> item.id,
   position |-> IF item.position = NoPos THEN DefaultPos ELSE item.position,
   data |-> nodeData(item, userList)]

createNodes(unifiedTasks, userList) ==
  [i \in 1..Len(unifiedTasks) |-> createNode(unifiedTasks[i], userList)]

\* the grid slot of the node at the given place of the list (index = place - 1)
gridSlot(place) ==
  <<((place - 1) % GridCols) * GridSize, ((place - 1) \div GridCols) * GridRowHeight>>

\* autoLayoutNodes: a node that has a position keeps it, any other gets the
\* grid slot of its index
autoLayoutNodes(nodeList) ==
  [i \in 1..Len(nodeList) |->
     IF nodeList[i].position # NoPos
       THEN nodeList[i]
       ELSE [nodeList[i] EXCEPT !.position = gridSlot(i)]]

\* an optional field of an object
Has(obj, field) == field \in DOMAIN obj

\* getEdgeColor: the stroke of the edge's style, else a colour by status
getEdgeColor(edgeOrTask) ==
  IF Has(edgeOrTask, "style") /\ Has(edgeOrTask.style, "stroke")
    THEN edgeOrTask.style.stroke
    ELSE LET status == IF Has(edgeOrTask, "status") THEN edgeOrTask.status
                       ELSE IF Has(edgeOrTask, "targetStatus")
                         THEN edgeOrTask.targetStatus
                         ELSE "default"
         IN  CASE status = "completed" -> "#28a745"
               [] status = "in_progress" -> "#28a745"
               [] status = "pending" -> "#ffc107"
               [] OTHER -> DefaultStroke

\* createNodesAndEdges, edge part: the style of one processed edge. The
\* spread of edge.style comes last, so what the edge carries wins
createEdge(edge) ==
  LET stroke == IF Has(edge, "style") /\ Has(edge.style, "stroke")
                  THEN edge.style.stroke ELSE getEdgeColor(edge)
      strokeWidth == IF Has(edge, "style") /\ Has(edge.style, "strokeWidth")
                       THEN edge.style.strokeWidth ELSE DefaultStrokeWidth
      carried == IF Has(edge, "style") THEN DOMAIN edge.style ELSE {}
      style == [k \in {"stroke", "strokeWidth"} \cup carried |->
                  IF k \in carried THEN edge.style[k]
                  ELSE IF k = "stroke" THEN stroke ELSE strokeWidth]
  IN  [f \in DOMAIN edge \cup {"style"} |-> IF f = "style" THEN style ELSE edge[f]]

createEdges(eds) == {createEdge(edge) : edge \in eds}

\* the showIncidents filter of loadFlowData
filteredTasks(show, unifiedTasks) ==
  IF show THEN unifiedTasks
  ELSE SelectSeq(unifiedTasks, LAMBDA t : t.task_type = "task")

\* ---------------------------------------------------- Position Reconciler
\* a variant that takes the freshly projected position (the earlier
\* setNodes(flowNodes))
reconcile_fresh(currentNodes, flowNodes) == flowNodes

\* a variant that keeps the rendered nodes the fresh data lacks
reconcile_keep(currentNodes, flowNodes) ==
  flowNodes \o SelectSeq(currentNodes, LAMBDA node : node.id \notin IdsOf(flowNodes))

\* the setNodes updater of loadFlowData
reconcile(currentNodes, flowNodes) ==
  IF Len(currentNodes) = 0
    THEN flowNodes
    ELSE LET currentPositions(id) ==
               LET hit == {i \in 1..Len(currentNodes) : currentNodes[i].id = id}
               IN  IF hit = {} THEN NoPos
                   \* Map.set in array order: the last entry for an id wins
                   ELSE currentNodes[CHOOSE i \in hit : \A j \in hit : j <= i].position
             merge(newNode) ==
               [newNode EXCEPT !.position =
                  IF currentPositions(newNode.id) # NoPos
                    THEN currentPositions(newNode.id)
                    ELSE newNode.position]
         IN  MapSeq(flowNodes, merge)

\* ------------------------------------------------------ single-item patch
\* a variant that drops the identity test
applyPatch_all(currentNodes, updatedTask, userList) ==
  MapSeq(currentNodes, LAMBDA node :
    [node EXCEPT !.data = nodeData(updatedTask, userList)])

\* the setNodes updater of the updatedTask effect
applyPatch(currentNodes, updatedTask, userList) ==
  MapSeq(currentNodes,
         LAMBDA node : IF node.id = updatedTask.id
                         THEN [node EXCEPT !.data = nodeData(updatedTask, userList)]
                         ELSE node)

\* a variant of the load effect that runs loadFlowData unconditionally
LoadEffectCond_always(nodesLen, updatedTask) == TRUE

\* the condition of the load effect
LoadEffectCond(nodesLen, updatedTask) == nodesLen = 0 \/ updatedTask = NoTask

\* loadFlowData up to its first await: a request record
NewLoad(forced, tasksProp, usersProp) ==
  [lid |-> nLoads + 1, forced |-> forced, tasksProp |-> tasksProp,
   users |-> usersProp, showIncidents |-> showIncidents, phase |-> "sent",
   items |-> <<>>, edges |-> {}, flowUsers |-> {}]

\* ------------------------------------------------------------------- Init
Init ==
  /\ now = 0
  /\ storeTasks = InitialItems
  /\ storeEdges = {}
  /\ layoutLoading = TRUE
  /\ tasks = <<>>
  /\ selectedTask = NoTask
  /\ lastUpdatedTask = NoTask
  /\ mounted = FALSE
  /\ nodes = <<>>
  /\ edges = {}
  /\ loading = TRUE
  /\ error = FALSE
  /\ loads = {}
  /\ nLoads = 0
  /\ loadOutcome = "none"
  /\ edgeReqs = {}
  /\ nConnects = 0
  /\ timers = {}
  /\ timeoutRef = 0
  /\ nTimers = 0
  /\ writesInFlight = {}
  /\ writeLog = <<>>
  /\ events = {}
  /\ drawerResp = NoTask
  /\ nPatches = 0
  /\ created = {}
  /\ assigned = [n \in TaskIds |-> NoPos]
  /\ sinceFlush = [n \in TaskIds |-> NoPos]
  /\ dragLog = <<>>
  /\ createFailed = <<>>
  /\ lastConnect = [time |-> 0, source |-> NoId, target |-> NoId]
  /\ showIncidents = TRUE
  /\ nToggles = 0
  /\ edgeOps = {}
  /\ nEdgeOps = 0
  /\ edgeOpLog = <<>>
  /\ pureIn = NoCall
  /\ pureOut = <<>>
  /\ users = {}
  /\ storeUsers = UserIds
  /\ isTaskDrawerOpen = FALSE
  /\ editedTask = NoTask
  /\ hasChanges = FALSE
  /\ closedDirty = FALSE
  /\ nEdits = 0
  /\ listing = <<>>
  /\ listingQuery = NoCall
  /\ edgeColl = <<>>
  /\ posts = {}
  /\ nPosts = 0
  /\ postLog = <<>>
  /\ nStoreOps = 0
  /\ batchReq = [isArray |-> TRUE, updates |-> <<>>]
  /\ batchPending = {}
  /\ completed = 0
  /\ errors = <<>>
  /\ batchFailed = {}
  /\ batchResponses = <<>>
  /\ batchBroadcasts = <<>>
  /\ nBatches = 0
  /\ svcBuild = "none"
  /\ mockMode = FALSE
  /\ maxReconnectAttempts = DefaultMaxReconnectAttempts
  /\ reconnectAttempts = 0
  /\ sockets = {}
  /\ socket = NoSocket
  /\ isConnected = FALSE
  /\ reconnectTimers = 0
  /\ nSockets = 0
  /\ nAppConnects = 0
  /\ nOpens = 0
  /\ lastSocketEvent = "none"
  /\ listeners = <<>>
  /\ atStart = <<>>
  /\ invoked = <<>>
  /\ nListenerOps = 0

\* groups of variables an action leaves alone
storeVars == << storeTasks, storeEdges >>
layoutVars == << layoutLoading, tasks, selectedTask, lastUpdatedTask >>
writerVars == << timers, timeoutRef, nTimers, writesInFlight, writeLog, sinceFlush,
                dragLog >>
edgeVars == << edgeReqs, nConnects, createFailed, lastConnect >>
drawerVars == << drawerResp, nPatches, created >>
flowVars == << nodes, edges, loading, error, loads, nLoads, loadOutcome >>
filterVars == << showIncidents, nToggles >>
edgeOpVars == << edgeOps, nEdgeOps, edgeOpLog >>
pureVars == << pureIn, pureOut >>
userVars == << users, storeUsers >>
drawerUiVars == << isTaskDrawerOpen, editedTask, hasChanges, closedDirty, nEdits >>
storeOpVars == << listing, listingQuery, nStoreOps >>
edgePostVars == << edgeColl, posts, nPosts, postLog >>
batchVars == << batchReq, batchPending, completed, errors, batchFailed,
               batchResponses, batchBroadcasts, nBatches >>
wsVars == << svcBuild, mockMode, maxReconnectAttempts, reconnectAttempts, sockets,
            socket, isConnected, reconnectTimers, nSockets, nAppConnects,
            nOpens, lastSocketEvent >>
emitVars == << listeners, atStart, invoked, nListenerOps >>
serviceVars == << batchVars, wsVars, emitVars >>

\* GET /api/tasks without its filter on archived
getTasks_all(items, task_type, include_archived) ==
  SelectSeq(items, LAMBDA item : task_type = "" \/ item.task_type = task_type)

\* GET /api/tasks: the items of the task_type asked for (all when the
\* parameter is absent, written ""), without the archived ones unless
\* include_archived is the string true
getTasks(items, task_type, include_archived) ==
  SelectSeq(items, LAMBDA item :
    /\ task_type = "" \/ item.task_type = task_type
    /\ include_archived = "true" \/ item.archived # TRUE)

\* ------------------------------------------------------------------ Layout
\* Layout.loadData resolves (ok: the item list arrives; ~ok: the catch branch),
\* Layout leaves its spinner and FlowDiagram mounts: the load effect runs
LayoutLoaded(ok) ==
  /\ layoutLoading
  /\ layoutLoading' = FALSE
  /\ tasks' = IF ok THEN getTasks(storeTasks, "", "") ELSE <<>>
  /\ users' = IF ok THEN storeUsers ELSE {}
  /\ mounted' = TRUE
  /\ loading' = TRUE
  /\ error' = FALSE
  /\ loads' = {NewLoad(FALSE, tasks', users')}
  /\ nLoads' = nLoads + 1
  /\ loadOutcome' = "pending"
  /\ UNCHANGED << serviceVars, edgePostVars, storeUsers, drawerUiVars, storeOpVars, filterVars, edgeOpVars, pureVars, now, storeVars, selectedTask, lastUpdatedTask, nodes, edges,
                  edgeVars, writerVars, events, drawerVars, assigned >>

\* socket.on('task_completed') of the server: the store is updated and the
\* event is broadcast
ServerTaskCompleted(id) ==
  /\ \E i \in 1..Len(storeTasks) :
       /\ storeTasks[i].id = id
       /\ storeTasks[i].status # "completed"
       /\ storeTasks' = [storeTasks EXCEPT ![i].status = "completed"]
  /\ events' = events \cup {id}
  /\ UNCHANGED << serviceVars, edgePostVars, userVars, drawerUiVars, storeOpVars, filterVars, edgeOpVars, pureVars, now, storeEdges, layoutVars, mounted, flowVars, edgeVars,
                  writerVars, drawerVars, assigned >>

\* Layout.handleTaskCompleted: setTasks makes a new list, so loadFlowData
\* changes identity and the load effect runs
handleTaskCompleted(id) ==
  /\ id \in events
  /\ ~layoutLoading
  /\ events' = events \ {id}
  /\ tasks' = MapSeq(tasks, LAMBDA task : IF task.id = id
                                            THEN [task EXCEPT !.status = "completed"]
                                            ELSE task)
  /\ IF mounted /\ LoadEffectCond(Len(nodes), lastUpdatedTask)
       THEN /\ nLoads < MaxLoads
            /\ loading' = TRUE
            /\ error' = FALSE
            /\ loads' = loads \cup {NewLoad(FALSE, tasks', users)}
            /\ nLoads' = nLoads + 1
            /\ loadOutcome' = "pending"
       ELSE UNCHANGED << loading, error, loads, nLoads, loadOutcome >>
  /\ UNCHANGED << serviceVars, edgePostVars, userVars, drawerUiVars, storeOpVars, filterVars, edgeOpVars, pureVars, now, storeVars, layoutLoading, selectedTask, lastUpdatedTask,
                  mounted, nodes, edges, edgeVars, writerVars, drawerVars, assigned >>

\* ------------------------------------------------------------ loadFlowData
\* the server answers the fetches of one load: getEdges always, the item list
\* only when the load does not use the tasks prop
LoadServe(l) ==
  /\ l \in loads
  /\ l.phase = "sent"
  /\ loads' = (loads \ {l}) \cup
              {[l EXCEPT !.phase = "ok",
                         !.items = IF l.forced THEN getTasks(storeTasks, "", "")
                                                ELSE l.tasksProp,
                         !.edges = storeEdges,
                         !.flowUsers = IF l.forced THEN storeUsers ELSE l.users]}
  /\ UNCHANGED << serviceVars, edgePostVars, userVars, drawerUiVars, storeOpVars, filterVars, edgeOpVars, pureVars, now, storeVars, layoutVars, mounted, nodes, edges, loading,
                  error, nLoads, loadOutcome, edgeVars, writerVars, events, drawerVars,
                  assigned >>

\* the try branch after the await, the finally branch, and the load effect
\* that runs when nodes.length changed
LoadApply(l) ==
  /\ l \in loads
  /\ l.phase = "ok"
  /\ mounted
  /\ nodes' = reconcile(nodes, createNodes(filteredTasks(l.showIncidents, l.items),
                                           l.flowUsers))
  /\ edges' = createEdges(l.edges)
  /\ assigned' = [n \in TaskIds |->
                    IF assigned[n] = NoPos /\ n \in IdsOf(nodes')
                      THEN (CHOOSE nd \in Range(nodes') : nd.id = n).position
                      ELSE assigned[n]]
  /\ IF Len(nodes') # Len(nodes) /\ LoadEffectCond(Len(nodes'), lastUpdatedTask)
       THEN /\ nLoads < MaxLoads
            /\ loading' = TRUE
            /\ error' = FALSE
            /\ loads' = (loads \ {l}) \cup {NewLoad(FALSE, tasks, users)}
            /\ nLoads' = nLoads + 1
            /\ loadOutcome' = "pending"
       ELSE /\ loading' = FALSE
            /\ error' = error
            /\ loads' = loads \ {l}
            /\ nLoads' = nLoads
            /\ loadOutcome' = IF l.lid = nLoads THEN "ok" ELSE loadOutcome
  /\ UNCHANGED << serviceVars, edgePostVars, userVars, drawerUiVars, storeOpVars, filterVars, edgeOpVars, pureVars, now, storeVars, layoutVars, mounted, edgeVars, writerVars,
                  events, drawerVars >>

\* a variant whose setNodes ran before the failing fetch was awaited
LoadFail_partial(l) ==
  /\ l \in loads
  /\ l.phase = "sent"
  /\ mounted
  /\ loads' = loads \ {l}
  /\ nodes' = createNodes(l.tasksProp, l.users)
  /\ error' = TRUE
  /\ loading' = FALSE
  /\ loadOutcome' = IF l.lid = nLoads THEN "failed" ELSE loadOutcome
  /\ UNCHANGED << serviceVars, edgePostVars, userVars, drawerUiVars, storeOpVars, filterVars, edgeOpVars, pureVars, now, storeVars, layoutVars, mounted,
                  edges, nLoads, edgeVars, writerVars, events, drawerVars, assigned >>

\* the catch branch and the finally branch
LoadFail(l) ==
  /\ l \in loads
  /\ l.phase = "sent"
  /\ mounted
  /\ loads' = loads \ {l}
  /\ error' = TRUE
  /\ loading' = FALSE
  /\ loadOutcome' = IF l.lid = nLoads THEN "failed" ELSE loadOutcome
  /\ UNCHANGED << serviceVars, edgePostVars, userVars, drawerUiVars, storeOpVars, filterVars, edgeOpVars, pureVars, now, storeVars, layoutVars, mounted, nodes, edges, nLoads,
                  edgeVars, writerVars, events, drawerVars, assigned >>

\* the retry button of the error panel: onClick={loadFlowData} passes the
\* click event as forceReload
Retry ==
  /\ mounted /\ ~loading /\ error
  /\ nLoads < MaxLoads
  /\ loading' = TRUE
  /\ error' = FALSE
  /\ loads' = loads \cup {NewLoad(TRUE, tasks, users)}
  /\ nLoads' = nLoads + 1
  /\ loadOutcome' = "pending"
  /\ UNCHANGED << serviceVars, edgePostVars, userVars, drawerUiVars, storeOpVars, filterVars, edgeOpVars, pureVars, now, storeVars, layoutVars, mounted, nodes, edges, edgeVars,
                  writerVars, events, drawerVars, assigned >>

\* the parent changes the showIncidents prop: the load effect runs with the
\* new loadFlowData
ToggleIncidents ==
  /\ mounted
  /\ nToggles < MaxToggles
  /\ showIncidents' = ~showIncidents
  /\ nToggles' = nToggles + 1
  /\ IF LoadEffectCond(Len(nodes), lastUpdatedTask)
       THEN /\ nLoads < MaxLoads
            /\ loading' = TRUE
            /\ error' = FALSE
            /\ loads' = loads \cup
                 {[NewLoad(FALSE, tasks, users) EXCEPT !.showIncidents = showIncidents']}
            /\ nLoads' = nLoads + 1
            /\ loadOutcome' = "pending"
       ELSE UNCHANGED << loading, error, loads, nLoads, loadOutcome >>
  /\ UNCHANGED << serviceVars, edgePostVars, userVars, drawerUiVars, storeOpVars, edgeOpVars, pureVars, now, storeVars, layoutVars, mounted, nodes,
                  edges, edgeVars, writerVars, events, drawerVars, assigned >>

\* ------------------------------------------------------------- selection
\* the object TaskDrawer builds from its task prop: the fields it edits, and
\* neither the position nor the deleted mark
drawerCopy(task) ==
  [id |-> task.id, status |-> task.status, task_type |-> task.task_type,
   assignedTo |-> task.assignedTo, assigneeName |-> task.assigneeName,
   isNew |-> task.isNew, archived |-> task.archived]

\* the effect of TaskDrawer on [task]: it runs when the prop is another object
\* and copies it unless it is null; the edits of the previous object are gone
initEditedTask(sameObject, task) ==
  IF sameObject \/ task = NoTask
    THEN UNCHANGED << editedTask, hasChanges >>
    ELSE /\ editedTask' = drawerCopy(task)
         /\ hasChanges' = FALSE

\* handleNodeClick -> Layout.handleTaskSelect
handleNodeClick(id) ==
  /\ Ready
  /\ id \in IdsOf(nodes)
  /\ selectedTask' = (CHOOSE node \in Range(nodes) : node.id = id).data
  /\ isTaskDrawerOpen' = TRUE
  /\ \E sameObject \in BOOLEAN :
       /\ sameObject => selectedTask' = selectedTask
       /\ initEditedTask(sameObject, selectedTask')
  /\ closedDirty' = FALSE
  /\ UNCHANGED << serviceVars, edgePostVars, userVars, nEdits, storeOpVars, filterVars, edgeOpVars, pureVars, now, storeVars, layoutLoading, tasks, lastUpdatedTask, mounted,
                  flowVars, edgeVars, writerVars, events, drawerVars, assigned >>

\* ------------------------------------------------ Debounced Position Writer
\* clearTimeout(handle): a handle that has fired or was cleared is ignored
clearTimeout(pending, handle) == {t \in pending : t.tid # handle}

\* a variant that forgets to clear the previous timeout (the earlier
\* handleNodesChange.timeoutId version)
debounce_noclear(pending, ref, update, time, tid) ==
  pending \cup {[tid |-> tid, deadline |-> time + QuietPeriod, updates |-> {update}]}

\* a variant that clears the previous timeout and sets none
debounce_drop(pending, ref, update, time, tid) ==
  IF ref # 0 THEN clearTimeout(pending, ref) ELSE pending

\* lines 776-791: clear the previous timeout if the ref is set, then
\* setTimeout(..., 500) over the updates of this call only
debounce(pending, ref, update, time, tid) ==
  (IF ref # 0 THEN clearTimeout(pending, ref) ELSE pending) \cup
    {[tid |-> tid, deadline |-> time + QuietPeriod, updates |-> {update}]}

\* handleNodesChange with one position change whose dragging flag is false
handleNodesChange(id, position) ==
  /\ Ready
  /\ id \in IdsOf(nodes)
  /\ nTimers < MaxDrags
  /\ nodes' = MapSeq(nodes, LAMBDA node : IF node.id = id
                                            THEN [node EXCEPT !.position = position]
                                            ELSE node)
  /\ timers' = debounce(timers, timeoutRef, [id |-> id, position |-> position],
                        now, nTimers + 1)
  /\ timeoutRef' = nTimers + 1
  /\ nTimers' = nTimers + 1
  /\ assigned' = [assigned EXCEPT ![id] = position]
  /\ sinceFlush' = [sinceFlush EXCEPT ![id] = position]
  /\ dragLog' = Append(dragLog, [time |-> now, id |-> id, position |-> position,
                                  connects |-> nConnects])
  /\ UNCHANGED << serviceVars, edgePostVars, userVars, drawerUiVars, storeOpVars, filterVars, edgeOpVars, pureVars, now, storeVars, layoutVars, mounted, edges, loading, error,
                  loads, nLoads, loadOutcome, edgeVars, writesInFlight, writeLog,
                  events, drawerVars >>

\* the timer callback up to its await: the batch write is sent
TimerFires(t) ==
  /\ t \in timers
  /\ t.deadline <= now
  /\ timers' = timers \ {t}
  /\ writesInFlight' = writesInFlight \cup {[tid |-> t.tid, updates |-> t.updates]}
  /\ writeLog' = Append(writeLog, [time |-> now, updates |-> t.updates,
                                   mounted |-> mounted, due |-> sinceFlush])
  /\ sinceFlush' = [n \in TaskIds |-> NoPos]
  /\ UNCHANGED << serviceVars, edgePostVars, userVars, drawerUiVars, storeOpVars, filterVars, edgeOpVars, pureVars, now, storeVars, layoutVars, mounted, flowVars, edgeVars,
                  timeoutRef, nTimers, dragLog, events, drawerVars, assigned >>

\* typeof v === 'number'
isNumber(v) == v # NotANumber

\* the test of the batch route on one entry: a position with numeric x and y
validPosition(position) ==
  position # NoPos /\ isNumber(position[1]) /\ isNumber(position[2])

\* PUT /api/tasks/positions/batch: an entry whose position is invalid is
\* reported and skipped, the others update the items of their ids
batchPositions(items, updates) ==
  LET valid == {u \in updates : validPosition(u.position)}
  IN  MapSeq(items, LAMBDA item :
        IF \E u \in valid : u.id = item.id
          THEN [item EXCEPT !.position = (CHOOSE u \in valid : u.id = item.id).position]
          ELSE item)

\* the batch write is answered: the rest of the timer callback (ok: the try
\* branch; ~ok: the catch branch) and its finally branch
WriteDone(w, ok) ==
  /\ w \in writesInFlight
  /\ writesInFlight' = writesInFlight \ {w}
  /\ storeTasks' = IF ok THEN batchPositions(storeTasks, w.updates) ELSE storeTasks
  /\ timeoutRef' = 0
  /\ UNCHANGED << serviceVars, edgePostVars, userVars, drawerUiVars, storeOpVars, filterVars, edgeOpVars, pureVars, now, storeEdges, layoutVars, mounted, flowVars, edgeVars,
                  timers, nTimers, writeLog, sinceFlush, dragLog, events,
                  drawerVars, assigned >>

\* the cleanup effect: the view is torn down
Unmount ==
  /\ mounted
  /\ mounted' = FALSE
  /\ timers' = IF timeoutRef # 0 THEN clearTimeout(timers, timeoutRef) ELSE timers
  /\ timeoutRef' = 0
  /\ UNCHANGED << serviceVars, edgePostVars, userVars, drawerUiVars, storeOpVars, filterVars, edgeOpVars, pureVars, now, storeVars, layoutVars, flowVars, edgeVars, nTimers,
                  writesInFlight, writeLog, sinceFlush, dragLog, events,
                  drawerVars, assigned >>

\* 100 ms pass
Tick ==
  /\ now < MaxTime
  /\ now' = now + 1
  /\ UNCHANGED << serviceVars, edgePostVars, userVars, drawerUiVars, storeOpVars, filterVars, edgeOpVars, pureVars, storeVars, layoutVars, mounted, flowVars, edgeVars, writerVars,
                  events, drawerVars, assigned >>

\* ------------------------------------------------------------ connect
\* addEdge of the rendering library: the collection comes back unchanged when
\* the connection lacks an end or an edge between the same ends and handles
\* is present
addEdge(edge, eds) ==
  IF edge.source = NoId \/ edge.target = NoId
    THEN eds
    ELSE IF \E el \in eds : /\ el.source = edge.source
                            /\ el.target = edge.target
                            /\ el.sourceHandle = edge.sourceHandle
                            /\ el.targetHandle = edge.targetHandle
           THEN eds
           ELSE eds \cup {edge}

\* onConnect up to its await: the edge gets its id from the ends and
\* Date.now(), goes into the local collection and the create request is sent.
\* The handler tests neither end: a gesture that lacks one takes the same path
onConnect(source, sourceHandle, target, targetHandle) ==
  /\ Ready
  /\ source \in IdsOf(nodes) \cup {NoId}
  /\ target \in IdsOf(nodes) \cup {NoId}
  /\ source # target \/ source = NoId
  /\ nConnects < MaxConnects
  /\ LET newEdge == [id |-> <<source, target, now>>, source |-> source,
                     sourceHandle |-> sourceHandle, target |-> target,
                     targetHandle |-> targetHandle,
                     style |-> [stroke |-> DefaultStroke,
                                strokeWidth |-> DefaultStrokeWidth]]
     IN  /\ edges' = addEdge(newEdge, edges)
         /\ edgeReqs' = edgeReqs \cup {[rid |-> nConnects + 1, edge |-> newEdge]}
  /\ nConnects' = nConnects + 1
  /\ lastConnect' = [time |-> now, source |-> source, target |-> target]
  /\ UNCHANGED << serviceVars, edgePostVars, userVars, drawerUiVars, storeOpVars, filterVars, edgeOpVars, pureVars, now, storeVars, layoutVars, mounted, nodes, loading, error,
                  loads, nLoads, loadOutcome, createFailed, writerVars, events, drawerVars,
                  assigned >>

\* POST /api/edges: an edge whose id exists is returned, not inserted
postEdge(stored, newEdge) ==
  IF \E e \in stored : e.id = newEdge.id THEN stored ELSE stored \cup {newEdge}

\* the create request succeeds: the try branch of onConnect after the await
\* (the saved edge carries the id that was sent)
CreateEdgeOk(r) ==
  /\ r \in edgeReqs
  /\ edgeReqs' = edgeReqs \ {r}
  /\ storeEdges' = postEdge(storeEdges, r.edge)
  /\ LET savedEdge == CHOOSE e \in storeEdges' : e.id = r.edge.id
     IN  edges' = IF savedEdge.id # r.edge.id /\ mounted
                    THEN {IF edge.id = r.edge.id THEN savedEdge ELSE edge : edge \in edges}
                    ELSE edges
  /\ UNCHANGED << serviceVars, edgePostVars, userVars, drawerUiVars, storeOpVars, filterVars, edgeOpVars, pureVars, now, storeTasks, layoutVars, mounted, nodes, loading, error,
                  loads, nLoads, loadOutcome, nConnects, createFailed, lastConnect, writerVars, events,
                  drawerVars, assigned >>

\* a variant of the catch branch that rolls the optimistic edge back
onCreateEdgeError_rollback(eds, newEdge) == {e \in eds : e.id # newEdge.id}

\* the catch branch of onConnect: two console.error calls, no state change
onCreateEdgeError(eds, newEdge) == eds

\* the create request fails
CreateEdgeFail(r) ==
  /\ r \in edgeReqs
  /\ edgeReqs' = edgeReqs \ {r}
  /\ edges' = onCreateEdgeError(edges, r.edge)
  /\ createFailed' = Append(createFailed, r.edge.id)
  /\ UNCHANGED << serviceVars, edgePostVars, userVars, drawerUiVars, storeOpVars, filterVars, edgeOpVars, pureVars, now, storeVars, layoutVars, mounted, nodes, loading, error,
                  loads, nLoads, loadOutcome, nConnects, lastConnect, writerVars, events, drawerVars,
                  assigned >>

\* ------------------------------------------------- edge update and delete
\* the processed edge of handleEdgeUpdate: the colour the modal chose, the
\* fixed width, and a key from Date.now()
processedEdge(updatedEdge) ==
  [f \in DOMAIN updatedEdge \cup {"key", "style"} |->
     IF f = "key" THEN <<updatedEdge.id, now>>
     ELSE IF f = "style"
       THEN [stroke |-> IF Has(updatedEdge, "style") /\ Has(updatedEdge.style, "stroke")
                          THEN updatedEdge.style.stroke ELSE DefaultStroke,
             strokeWidth |-> DefaultStrokeWidth]
     ELSE updatedEdge[f]]

\* handleEdgeUpdate up to its await: the modal saves an edge with the colour
\* it chose; the update request is sent and the local edges are not touched
handleEdgeUpdate(edge, stroke) ==
  /\ Ready
  /\ edge \in edges
  /\ nEdgeOps < MaxEdgeOps
  /\ LET updatedEdge == [f \in DOMAIN edge \cup {"style"} |->
                           IF f = "style" THEN [stroke |-> stroke, strokeWidth |-> ModalWidth]
                           ELSE edge[f]]
     IN  edgeOps' = edgeOps \cup {[oid |-> nEdgeOps + 1, kind |-> "update",
                                   via |-> "modal", id |-> edge.id,
                                   edge |-> processedEdge(updatedEdge)]}
  /\ nEdgeOps' = nEdgeOps + 1
  /\ UNCHANGED << serviceVars, edgePostVars, userVars, drawerUiVars, storeOpVars, filterVars, pureVars, edgeOpLog, now, storeVars, layoutVars, mounted,
                  flowVars, edgeVars, writerVars, events, drawerVars, assigned >>

\* handleEdgeDelete up to its await: the modal deletes an edge; the delete
\* request is sent and the local edges are not touched
handleEdgeDelete(edgeId) ==
  /\ Ready
  /\ \E e \in edges : e.id = edgeId
  /\ nEdgeOps < MaxEdgeOps
  /\ edgeOps' = edgeOps \cup {[oid |-> nEdgeOps + 1, kind |-> "delete",
                                via |-> "modal", id |-> edgeId, edge |-> NoCall]}
  /\ nEdgeOps' = nEdgeOps + 1
  /\ UNCHANGED << serviceVars, edgePostVars, userVars, drawerUiVars, storeOpVars, filterVars, pureVars, edgeOpLog, now, storeVars, layoutVars, mounted,
                  flowVars, edgeVars, writerVars, events, drawerVars, assigned >>

\* handleEdgesChange with one remove change: onEdgesChange drops the edge
\* from the local edges, then the delete request is sent
handleEdgesChange(edgeId) ==
  /\ Ready
  /\ \E e \in edges : e.id = edgeId
  /\ nEdgeOps < MaxEdgeOps
  /\ edges' = {e \in edges : e.id # edgeId}
  /\ edgeOps' = edgeOps \cup {[oid |-> nEdgeOps + 1, kind |-> "delete",
                                via |-> "diagram", id |-> edgeId, edge |-> NoCall]}
  /\ nEdgeOps' = nEdgeOps + 1
  /\ UNCHANGED << serviceVars, edgePostVars, userVars, drawerUiVars, storeOpVars, filterVars, pureVars, edgeOpLog, now, storeVars, layoutVars, mounted,
                  nodes, loading, error, loads, nLoads, loadOutcome, edgeVars, writerVars,
                  events, drawerVars, assigned >>

\* PUT /api/edges/:id: $set of the body on the stored edge
putEdge(stored, id, body) ==
  {IF e.id = id
     THEN [f \in DOMAIN e \cup DOMAIN body |-> IF f \in DOMAIN body THEN body[f] ELSE e[f]]
     ELSE e : e \in stored}

\* DELETE /api/edges/:id
deleteEdge(stored, id) == {e \in stored : e.id # id}

\* the request is answered with success (the store holds the edge): the rest
\* of the try branch
EdgeOpOk(r) ==
  /\ r \in edgeOps
  /\ \E e \in storeEdges : e.id = r.id
  /\ edgeOps' = edgeOps \ {r}
  /\ storeEdges' = IF r.kind = "update" THEN putEdge(storeEdges, r.id, r.edge)
                   ELSE deleteEdge(storeEdges, r.id)
  /\ edges' = IF ~mounted \/ r.via = "diagram" THEN edges
              ELSE IF r.kind = "update"
                THEN {e \in edges : e.id # r.id} \cup {r.edge}
                ELSE {e \in edges : e.id # r.id}
  /\ edgeOpLog' = Append(edgeOpLog, [kind |-> r.kind, via |-> r.via, id |-> r.id,
                                     edge |-> r.edge, ok |-> TRUE])
  /\ UNCHANGED << serviceVars, edgePostVars, userVars, drawerUiVars, storeOpVars, filterVars, pureVars, nEdgeOps, now, storeTasks, layoutVars, mounted,
                  nodes, loading, error, loads, nLoads, loadOutcome, edgeVars, writerVars,
                  events, drawerVars, assigned >>

\* the request fails (the store does not hold the edge: 404; or the network):
\* the catch branch, one console.error
EdgeOpFail(r) ==
  /\ r \in edgeOps
  /\ edgeOps' = edgeOps \ {r}
  /\ edgeOpLog' = Append(edgeOpLog, [kind |-> r.kind, via |-> r.via, id |-> r.id,
                                     edge |-> r.edge, ok |-> FALSE])
  /\ UNCHANGED << serviceVars, edgePostVars, userVars, drawerUiVars, storeOpVars, filterVars, pureVars, nEdgeOps, now, storeVars, layoutVars, mounted,
                  flowVars, edgeVars, writerVars, events, drawerVars, assigned >>

\* ---------------------------------------------------------- TaskDrawer
\* Layout.handleCreateTask: the drawer opens on an empty template
handleCreateTask ==
  /\ ~layoutLoading
  /\ drawerResp = NoTask
  /\ selectedTask' = [id |-> TempId, task_type |-> "task", rev |-> 0,
                      status |-> "pending", position |-> CreatedPos,
                      deleted |-> FALSE, isNew |-> TRUE,
                      assignedTo |-> NoUser, assigneeName |-> "", archived |-> FALSE]
  /\ isTaskDrawerOpen' = TRUE
  /\ initEditedTask(FALSE, selectedTask')
  /\ closedDirty' = FALSE
  /\ UNCHANGED << serviceVars, edgePostVars, userVars, nEdits, storeOpVars, filterVars, edgeOpVars, pureVars, now, storeVars, layoutLoading, tasks, lastUpdatedTask, mounted,
                  flowVars, edgeVars, writerVars, events, drawerVars, assigned >>

\* the auto-save of an edited item: PUT /api/tasks/:id merges the edited
\* fields (the drawer sends no position) and answers with the stored record
DrawerSave ==
  /\ isTaskDrawerOpen
  /\ selectedTask # NoTask /\ ~selectedTask.isNew
  /\ drawerResp = NoTask
  /\ nPatches < MaxPatches
  /\ \E i \in 1..Len(storeTasks) :
       /\ storeTasks[i].id = selectedTask.id
       /\ storeTasks' = [storeTasks EXCEPT ![i].rev = nPatches + 1,
                                           ![i].status = selectedTask.status,
                                           ![i].isNew = FALSE]
       /\ drawerResp' = storeTasks'[i]
  /\ nPatches' = nPatches + 1
  /\ UNCHANGED << serviceVars, edgePostVars, userVars, drawerUiVars, storeOpVars, filterVars, edgeOpVars, pureVars, now, storeEdges, layoutVars, mounted, flowVars, edgeVars,
                  writerVars, events, created, assigned >>

\* handleManualSave: POST /api/tasks gives the item its id and position; the
\* drawer reports {...savedTask, isNew: true}
DrawerCreate(id) ==
  /\ isTaskDrawerOpen
  /\ selectedTask # NoTask /\ editedTask.isNew
  /\ drawerResp = NoTask
  /\ nPatches < MaxPatches
  /\ id \in TaskIds \ (IdsOf(InitialItems) \cup created)
  /\ created' = created \cup {id}
  /\ LET savedTask == [id |-> id, task_type |-> editedTask.task_type, rev |-> 0,
                       status |-> editedTask.status, position |-> CreatedPos,
                       deleted |-> FALSE, isNew |-> FALSE,
                       assignedTo |-> editedTask.assignedTo,
                       assigneeName |-> editedTask.assigneeName,
                       archived |-> editedTask.archived]
     IN  /\ storeTasks' = Append(storeTasks, savedTask)
         /\ drawerResp' = [savedTask EXCEPT !.isNew = TRUE]
  /\ nPatches' = nPatches + 1
  /\ UNCHANGED << serviceVars, edgePostVars, userVars, drawerUiVars, storeOpVars, filterVars, edgeOpVars, pureVars, now, storeEdges, layoutVars, mounted, flowVars, edgeVars,
                  writerVars, events, assigned >>

\* handleDelete: DELETE /api/tasks/:id; the drawer reports
\* {...editedTask, deleted: true}
DrawerDelete ==
  /\ isTaskDrawerOpen
  /\ selectedTask # NoTask /\ ~editedTask.isNew
  /\ drawerResp = NoTask
  /\ nPatches < MaxPatches
  /\ editedTask.id \in IdsOf(storeTasks)
  /\ storeTasks' = SelectSeq(storeTasks, LAMBDA item : item.id # editedTask.id)
  /\ drawerResp' = [selectedTask EXCEPT !.position = NoPos, !.deleted = TRUE,
                                        !.status = editedTask.status,
                                        !.task_type = editedTask.task_type,
                                        !.assignedTo = editedTask.assignedTo,
                                        !.assigneeName = editedTask.assigneeName]
  /\ nPatches' = nPatches + 1
  /\ UNCHANGED << serviceVars, edgePostVars, userVars, drawerUiVars, storeOpVars, filterVars, edgeOpVars, pureVars, now, storeEdges, layoutVars, mounted, flowVars, edgeVars,
                  writerVars, events, created, assigned >>

\* the options of the status select, by classification
TaskStatuses == {"backlog", "pending", "in_progress", "completed"}
IncidentStatuses == {"open", "in_progress", "resolved", "closed"}
StatusOptions(task_type) ==
  IF task_type = "incident" THEN IncidentStatuses ELSE TaskStatuses

\* handleFieldChange: the field takes the value; an assignment also caches
\* the name of the user, or the empty string when there is none
handleFieldChange(field, value) ==
  /\ isTaskDrawerOpen
  /\ editedTask # NoTask
  /\ nEdits < MaxEdits
  /\ editedTask' =
       IF field = "assignedTo"
         THEN [editedTask EXCEPT !.assignedTo = value,
                                 !.assigneeName = IF value \in storeUsers
                                                    THEN UserNames[value] ELSE ""]
         ELSE [editedTask EXCEPT ![field] = value]
  /\ hasChanges' = TRUE
  /\ nEdits' = nEdits + 1
  /\ UNCHANGED << serviceVars, edgePostVars, userVars, isTaskDrawerOpen, closedDirty, storeOpVars, filterVars,
                  edgeOpVars, pureVars, now, storeVars, layoutVars, mounted,
                  flowVars, edgeVars, writerVars, events, drawerVars, assigned >>

\* the setEditedTask updater of handleTaskTypeChange without its adjustment of
\* the status
taskTypeChange_keep(prev, newTaskType) ==
  [prev EXCEPT !.task_type = newTaskType]

\* the setEditedTask updater of handleTaskTypeChange
taskTypeChange(prev, newTaskType) ==
  LET updated == [prev EXCEPT !.task_type = newTaskType]
  IN  IF newTaskType = "incident"
        THEN IF updated.status \in {"backlog", "pending", "completed"}
               THEN [updated EXCEPT !.status = IF updated.status = "completed"
                                                 THEN "resolved" ELSE "open"]
               ELSE updated
      ELSE IF newTaskType = "task"
        THEN IF updated.status \in {"open", "resolved", "closed"}
               THEN [updated EXCEPT !.status =
                       IF updated.status = "resolved" THEN "completed"
                       ELSE IF updated.status = "closed" THEN "completed"
                       ELSE "pending"]
               ELSE updated
      ELSE updated

\* handleTaskTypeChange: the select of the classification took another value
handleTaskTypeChange(newTaskType) ==
  /\ isTaskDrawerOpen
  /\ editedTask # NoTask
  /\ newTaskType # editedTask.task_type
  /\ nEdits < MaxEdits
  /\ editedTask' = taskTypeChange(editedTask, newTaskType)
  /\ hasChanges' = TRUE
  /\ nEdits' = nEdits + 1
  /\ UNCHANGED << serviceVars, edgePostVars, userVars, isTaskDrawerOpen, closedDirty, storeOpVars, filterVars,
                  edgeOpVars, pureVars, now, storeVars, layoutVars, mounted,
                  flowVars, edgeVars, writerVars, events, drawerVars, assigned >>

\* handleClose -> Layout.handleTaskDrawerClose: the drawer is hidden; it stays
\* mounted with its editedTask, its hasChanges and its auto-save effect
handleTaskDrawerClose ==
  /\ isTaskDrawerOpen
  /\ isTaskDrawerOpen' = FALSE
  /\ closedDirty' = (editedTask # NoTask /\ hasChanges /\ ~editedTask.isNew
                       /\ drawerResp = NoTask)
  /\ UNCHANGED << serviceVars, edgePostVars, userVars, editedTask, hasChanges, nEdits, storeOpVars, filterVars,
                  edgeOpVars, pureVars, now, storeVars, layoutVars, mounted,
                  flowVars, edgeVars, writerVars, events, drawerVars, assigned >>

\* PUT /api/tasks/:id: $set of the body over the stored record
putTask(item, body, rev) ==
  [item EXCEPT !.rev = rev, !.status = body.status, !.task_type = body.task_type,
               !.assignedTo = body.assignedTo, !.assigneeName = body.assigneeName,
               !.archived = body.archived, !.isNew = body.isNew]

\* the callback of the auto-save timer: the effect set it because editedTask
\* has changes, is not new and no save is running; one second without a
\* further edit has passed. It sends editedTask and keeps the stored record
\* for onTaskUpdate
saveTimeout ==
  /\ editedTask # NoTask /\ hasChanges /\ ~editedTask.isNew
  /\ drawerResp = NoTask
  /\ nPatches < MaxPatches
  /\ \E i \in 1..Len(storeTasks) :
       /\ storeTasks[i].id = editedTask.id
       /\ storeTasks' = [storeTasks EXCEPT ![i] = putTask(@, editedTask, nPatches + 1)]
       /\ drawerResp' = storeTasks'[i]
  /\ nPatches' = nPatches + 1
  /\ UNCHANGED << serviceVars, edgePostVars, userVars, drawerUiVars, storeOpVars, filterVars, edgeOpVars, pureVars,
                  now, storeEdges, layoutVars, mounted, flowVars, edgeVars,
                  writerVars, events, created, assigned >>

\* Layout.handleTaskUpdate, then the effects that depend on what it sets: the
\* single-item patch and the load effect of FlowDiagram on updatedTask, the
\* copy of TaskDrawer on task; the drawer closes after a create and a delete
handleTaskUpdate ==
  /\ drawerResp # NoTask
  /\ ~layoutLoading
  /\ LET updatedTask == drawerResp
     IN  /\ tasks' = IF updatedTask.deleted
                       THEN SelectSeq(tasks, LAMBDA task : task.id # updatedTask.id)
                     ELSE IF updatedTask.isNew
                       THEN Append(tasks, updatedTask)
                     ELSE MapSeq(tasks, LAMBDA task : IF task.id = updatedTask.id
                                                       THEN updatedTask ELSE task)
         /\ selectedTask' = IF updatedTask.deleted THEN NoTask ELSE updatedTask
         /\ lastUpdatedTask' = updatedTask
         /\ nodes' = IF mounted THEN applyPatch(nodes, updatedTask, users) ELSE nodes
  /\ drawerResp' = NoTask
  /\ initEditedTask(FALSE, selectedTask')
  /\ isTaskDrawerOpen' = (isTaskDrawerOpen /\ ~drawerResp.deleted /\ ~drawerResp.isNew)
  /\ closedDirty' = (closedDirty /\ hasChanges')
  /\ IF mounted /\ LoadEffectCond(Len(nodes), lastUpdatedTask')
       THEN /\ nLoads < MaxLoads
            /\ loading' = TRUE
            /\ error' = FALSE
            /\ loads' = loads \cup {NewLoad(FALSE, tasks', users)}
            /\ nLoads' = nLoads + 1
            /\ loadOutcome' = "pending"
       ELSE UNCHANGED << loading, error, loads, nLoads, loadOutcome >>
  /\ UNCHANGED << serviceVars, edgePostVars, userVars, nEdits, storeOpVars, filterVars, edgeOpVars, pureVars, now, storeVars, layoutLoading, mounted, edges, edgeVars,
                  writerVars, events, nPatches, created, assigned >>

\* ------------------------------------------------------ user deletion
\* DELETE /api/persons/:id on the items: $unset of assignedTo and assigneeName
\* where the person is assigned
unsetAssignee(items, userId) ==
  MapSeq(items, LAMBDA item :
    IF item.assignedTo = userId
      THEN [item EXCEPT !.assignedTo = NoUser, !.assigneeName = ""]
      ELSE item)

\* the setTasks updater of Layout.handleUserDeleted
removeAssignee(list, userId) ==
  MapSeq(list, LAMBDA task :
    IF task.assignedTo = userId
      THEN [task EXCEPT !.assignedTo = NoUser, !.assigneeName = ""]
      ELSE task)

\* the user drawer's delete is answered and calls Layout.handleUserDeleted;
\* users and tasks change, so both effects of FlowDiagram run: the
\* single-item patch over the new users, and the load effect
handleUserDeleted(userId) ==
  /\ ~layoutLoading
  /\ userId \in users /\ userId \in storeUsers
  /\ storeUsers' = storeUsers \ {userId}
  /\ storeTasks' = unsetAssignee(storeTasks, userId)
  /\ users' = users \ {userId}
  /\ tasks' = removeAssignee(tasks, userId)
  /\ nodes' = IF mounted /\ lastUpdatedTask # NoTask
                THEN applyPatch(nodes, lastUpdatedTask, users')
                ELSE nodes
  /\ IF mounted /\ LoadEffectCond(Len(nodes), lastUpdatedTask)
       THEN /\ nLoads < MaxLoads
            /\ loading' = TRUE
            /\ error' = FALSE
            /\ loads' = loads \cup {NewLoad(FALSE, tasks', users')}
            /\ nLoads' = nLoads + 1
            /\ loadOutcome' = "pending"
       ELSE UNCHANGED << loading, error, loads, nLoads, loadOutcome >>
  /\ UNCHANGED << serviceVars, edgePostVars, drawerUiVars, storeOpVars, filterVars, edgeOpVars, pureVars,
                  now, storeEdges, layoutLoading, selectedTask, lastUpdatedTask, mounted,
                  edges, edgeVars, writerVars, events, drawerVars, assigned >>

\* ------------------------------------------- pure functions on their own
\* the setNodes updater of loadFlowData applied to given node lists
ApplyReconcile(previous, fresh) ==
  /\ pureIn = NoCall
  /\ pureIn' = [fn |-> "reconcile", previous |-> previous, fresh |-> fresh]
  /\ pureOut' = reconcile(previous, fresh)
  /\ UNCHANGED << serviceVars, edgePostVars, userVars, drawerUiVars, storeOpVars, filterVars, edgeOpVars, now, storeVars, layoutVars, mounted, flowVars,
                  edgeVars, writerVars, events, drawerVars, assigned >>

\* the node part of createNodesAndEdges applied to a given item
ApplyCreateNode(item) ==
  /\ pureIn = NoCall
  /\ pureIn' = [fn |-> "createNode", item |-> item]
  /\ pureOut' = createNode(item, UserIds)
  /\ UNCHANGED << serviceVars, edgePostVars, userVars, drawerUiVars, storeOpVars, filterVars, edgeOpVars, now, storeVars, layoutVars, mounted, flowVars,
                  edgeVars, writerVars, events, drawerVars, assigned >>

\* the edge part of createNodesAndEdges applied to a given edge
ApplyCreateEdge(edge) ==
  /\ pureIn = NoCall
  /\ pureIn' = [fn |-> "createEdge", edge |-> edge]
  /\ pureOut' = createEdge(edge)
  /\ UNCHANGED << serviceVars, edgePostVars, userVars, drawerUiVars, storeOpVars, filterVars, edgeOpVars, now, storeVars, layoutVars, mounted, flowVars,
                  edgeVars, writerVars, events, drawerVars, assigned >>

\* createNodesAndEdges followed by autoLayoutNodes on given stored items
ApplyLayout(items) ==
  /\ pureIn = NoCall
  /\ pureIn' = [fn |-> "layout", items |-> items]
  /\ pureOut' = autoLayoutNodes(createNodes(items, UserIds))
  /\ UNCHANGED << serviceVars, edgePostVars, userVars, drawerUiVars, storeOpVars, filterVars, edgeOpVars, now, storeVars, layoutVars, mounted, flowVars,
                  edgeVars, writerVars, events, drawerVars, assigned >>

\* the responses of two saves: stored records of t1, t2 or t3 after an edit
PurePatches ==
  {[InitialItems[1] EXCEPT !.id = id, !.rev = 1, !.status = status,
                           !.assignedTo = assignedTo,
                           !.assigneeName = IF assignedTo = NoUser THEN "" ELSE UserNames[assignedTo]] :
     id \in TaskIds, status \in {"in_progress", "completed"},
     assignedTo \in UserIds \cup {NoUser}}

\* the rendered nodes the patches meet: the initial items in both orders, and
\* with a third item
PatchNodeLists ==
  {createNodes(InitialItems, UserIds),
   createNodes(<< InitialItems[2], InitialItems[1] >>, UserIds),
   createNodes(Append(InitialItems, [InitialItems[1] EXCEPT !.id = "t3"]), UserIds)}

\* two calls of Layout.handleTaskUpdate, each followed by its render and the
\* run of the updatedTask effect, for items of different ids
ApplyPatches(nodeList, first, second) ==
  /\ pureIn = NoCall
  /\ first.id # second.id
  /\ pureIn' = [fn |-> "patches", nodes |-> nodeList, first |-> first, second |-> second]
  /\ pureOut' = applyPatch(applyPatch(nodeList, first, UserIds), second, UserIds)
  /\ UNCHANGED << serviceVars, edgePostVars, userVars, drawerUiVars, storeOpVars, filterVars, edgeOpVars, now, storeVars, layoutVars, mounted, flowVars,
                  edgeVars, writerVars, events, drawerVars, assigned >>

\* ------------------------------------------------------- specifications
\* Layout and FlowDiagram come up: common to every specification
Startup ==
  \/ \E ok \in BOOLEAN : LayoutLoaded(ok)
  \/ \E l \in loads : LoadServe(l)
  \/ \E l \in loads : LoadApply(l)

\* The synchronization controller: loads, reloads, patches, selection and
\* drag-ends. The clock stands still, so the timers of the drag-ends stay
\* pending.
Next ==
  \/ Startup
  \/ \E l \in loads : LoadFail(l)
  \/ Retry
  \/ \E id \in CompletedIds : ServerTaskCompleted(id)
  \/ \E id \in TaskIds : handleTaskCompleted(id)
  \/ \E id \in TaskIds : handleNodeClick(id)
  \/ \E id \in TaskIds, position \in SyncDragPositions :
       nTimers < MaxSyncDrags /\ handleNodesChange(id, position)
  \/ handleCreateTask
  \/ DrawerSave
  \/ \E id \in TaskIds : DrawerCreate(id)
  \/ DrawerDelete
  \/ handleTaskUpdate

Spec == Init /\ [][Next]_vars

\* The debounced position writer under the clock: drag-ends, timers, batch
\* writes and teardown. The writer reads the clock only through its pending
\* timers, so time is counted while one is pending.
NextWriter ==
  \/ Startup
  \/ \E id \in TaskIds, position \in DragPositions : handleNodesChange(id, position)
  \/ \E t \in timers : TimerFires(t)
  \/ \E w \in writesInFlight, ok \in BOOLEAN : WriteDone(w, ok)
  \/ Unmount
  \/ timers # {} /\ Tick

SpecWriter == Init /\ [][NextWriter]_vars

\* The edge lifecycle under the clock: connect gestures, their create
\* requests, and reloads after a failed load. The clock is read by Date.now()
\* in the edge ids only.
NextEdges ==
  \/ Startup
  \/ \E l \in loads : LoadFail(l)
  \/ Retry
  \/ \E source \in TaskIds, sourceHandle \in SourceHandles,
        target \in TaskIds, targetHandle \in TargetHandles :
       onConnect(source, sourceHandle, target, targetHandle)
  \/ \E r \in edgeReqs : CreateEdgeOk(r)
  \/ \E r \in edgeReqs : CreateEdgeFail(r)
  \/ now < MaxConnectTime /\ Tick

SpecEdges == Init /\ [][NextEdges]_vars

\* The visibility filter: changes of showIncidents, with selection and
\* drawer edits between them.
NextFilter ==
  \/ Startup
  \/ \E id \in TaskIds : handleNodeClick(id)
  \/ DrawerSave
  \/ handleTaskUpdate
  \/ ToggleIncidents

SpecFilter == Init /\ [][NextFilter]_vars

\* The projector and the reconciler as functions of their arguments.
NextPure ==
  \/ \E previous \in PureNodeLists("rendered"), fresh \in PureNodeLists("fresh") :
       ApplyReconcile(previous, fresh)
  \/ \E item \in Range(InitialItems) \cup {[InitialItems[1] EXCEPT !.position = DefaultPos]} :
       ApplyCreateNode(item)
  \/ \E edge \in PureEdges : ApplyCreateEdge(edge)
  \/ \E items \in PureItemLists : ApplyLayout(items)
  \/ \E nodeList \in PatchNodeLists, first \in PurePatches, second \in PurePatches :
       ApplyPatches(nodeList, first, second)

SpecPure == Init /\ [][NextPure]_vars

\* Edges after their creation: updates and deletes from the edge modal,
\* removals in the diagram, and the answers to their requests.
NextEdgeOps ==
  \/ Startup
  \/ \E source \in TaskIds, sourceHandle \in SourceHandles,
        target \in TaskIds, targetHandle \in TargetHandles :
       onConnect(source, sourceHandle, target, targetHandle)
  \/ \E r \in edgeReqs : CreateEdgeOk(r)
  \/ \E edge \in edges, stroke \in UpdateStrokes : handleEdgeUpdate(edge, stroke)
  \/ \E edge \in edges : handleEdgeDelete(edge.id)
  \/ \E edge \in edges : handleEdgesChange(edge.id)
  \/ \E r \in edgeOps : EdgeOpOk(r)
  \/ \E r \in edgeOps : EdgeOpFail(r)

SpecEdgeOps == Init /\ [][NextEdgeOps]_vars

\* Gestures of the rendering surface under the clock: connects and drag-ends,
\* well-formed or not (a connection that lacks an end, a drag-end whose
\* coordinate is not a number), their requests and the position writer. The
\* gestures fall into the first ticks, the writer runs on from there.
GestureSources == {"t1", NoId}
GestureTargets == {"t2", NoId}
NextGestures ==
  \/ Startup
  \/ \E source \in GestureSources, target \in GestureTargets :
       /\ nConnects < MaxGestureConnects /\ now < MaxConnectTime
       /\ onConnect(source, "right", target, "left")
  \/ \E r \in edgeReqs : CreateEdgeOk(r)
  \/ \E r \in edgeReqs : CreateEdgeFail(r)
  \/ \E position \in SyncDragPositions \cup {BadPos} :
       /\ nTimers < MaxSyncDrags /\ now < MaxConnectTime
       /\ handleNodesChange("t1", position)
  \/ \E t \in timers : TimerFires(t)
  \/ \E w \in writesInFlight, ok \in BOOLEAN : WriteDone(w, ok)
  \/ timers # {} /\ Tick

SpecGestures == Init /\ [][NextGestures]_vars

\* Assignment: users are deleted while items are selected and saved.
NextUsers ==
  \/ Startup
  \/ \E id \in TaskIds : handleNodeClick(id)
  \/ DrawerSave
  \/ handleTaskUpdate
  \/ \E userId \in UserIds : handleUserDeleted(userId)

SpecUsers == Init /\ [][NextUsers]_vars

\* completions broadcast over the Change Channel during a session with
\* selections and saves
NextCompletion ==
  \/ Startup
  \/ \E id \in CompletedIds : ServerTaskCompleted(id)
  \/ \E id \in TaskIds : handleTaskCompleted(id)
  \/ \E id \in TaskIds : handleNodeClick(id)
  \/ DrawerSave
  \/ handleTaskUpdate

\* what the scheduling guarantees: a fetch is answered, its continuation
\* runs, a broadcast is delivered, a response of the drawer is handled
SpecCompletion ==
  /\ Init /\ [][NextCompletion]_vars
  /\ WF_vars(\E l \in loads : LoadServe(l))
  /\ WF_vars(\E l \in loads : LoadApply(l))
  /\ WF_vars(\E id \in TaskIds : handleTaskCompleted(id))
  /\ WF_vars(handleTaskUpdate)

\* ------------------------------------------------- requests to the store
\* PUT /api/tasks/:id/archive with body {archived}, absent means true
archiveTask(id, archived) ==
  /\ nStoreOps < MaxStoreOps
  /\ \E i \in 1..Len(storeTasks) :
       /\ storeTasks[i].id = id
       /\ storeTasks' = [storeTasks EXCEPT ![i].archived = archived]
  /\ nStoreOps' = nStoreOps + 1
  /\ UNCHANGED << serviceVars, edgePostVars, userVars, drawerUiVars, listing, listingQuery, filterVars, edgeOpVars,
                  pureVars, now, storeEdges, layoutVars, mounted, flowVars, edgeVars,
                  writerVars, events, drawerVars, assigned >>

\* POST /api/tasks: the body is stored under a generated id, its archived
\* field included
postTask(id, body) ==
  /\ nStoreOps < MaxStoreOps
  /\ id \in TaskIds \ (IdsOf(InitialItems) \cup created)
  /\ created' = created \cup {id}
  /\ storeTasks' = Append(storeTasks, [body EXCEPT !.id = id])
  /\ nStoreOps' = nStoreOps + 1
  /\ UNCHANGED << serviceVars, edgePostVars, userVars, drawerUiVars, listing, listingQuery, filterVars, edgeOpVars,
                  pureVars, now, storeEdges, layoutVars, mounted, flowVars, edgeVars,
                  writerVars, events, drawerResp, nPatches, assigned >>

\* GET /api/tasks with the query given
listTasks(task_type, include_archived) ==
  /\ nStoreOps < MaxStoreOps
  /\ listing' = getTasks(storeTasks, task_type, include_archived)
  /\ listingQuery' = [task_type |-> task_type, include_archived |-> include_archived]
  /\ nStoreOps' = nStoreOps + 1
  /\ UNCHANGED << serviceVars, edgePostVars, userVars, drawerUiVars, filterVars, edgeOpVars, pureVars, now,
                  storeVars, layoutVars, mounted, flowVars, edgeVars, writerVars,
                  events, drawerVars, assigned >>

\* the values of the query parameters; "" is the absent parameter
QueryTaskTypes == {"", "task", "incident"}
QueryIncludeArchived == {"", "true", "false"}

\* the store under archive, unarchive, create and list requests, and the
\* Layout that loads from its default listing
NextStore ==
  \/ Startup
  \/ \E id \in TaskIds, archived \in BOOLEAN : archiveTask(id, archived)
  \/ \E id \in TaskIds, archived \in BOOLEAN :
       postTask(id, [NoTask EXCEPT !.position = CreatedPos, !.archived = archived])
  \/ \E task_type \in QueryTaskTypes, include_archived \in QueryIncludeArchived :
       listTasks(task_type, include_archived)

SpecStore == Init /\ [][NextStore]_vars

\* ---------------------------------------- POST /api/edges on the server
\* the ids clients send with their create requests
PostIds == {"e1", "e2"}

\* edges.insert(newEdge): the document is added, unless the collection has a
\* unique index on id and holds a document of that id
insert(coll, newEdge, uniqueIndex) ==
  IF uniqueIndex /\ \E k \in 1..Len(coll) : coll[k].id = newEdge.id
    THEN coll
    ELSE Append(coll, newEdge)

\* the handler runs: newEdge is built and edges.findOne({id}) is called
PostEdgeReceived(id) ==
  /\ nPosts < MaxPosts
  /\ posts' = posts \cup {[pid |-> nPosts + 1, phase |-> "findOne",
                            newEdge |-> [id |-> id, pid |-> nPosts + 1]]}
  /\ nPosts' = nPosts + 1
  /\ UNCHANGED << serviceVars, edgeColl, postLog, userVars, drawerUiVars, storeOpVars, filterVars,
                  edgeOpVars, pureVars, now, storeVars, layoutVars, mounted, flowVars,
                  edgeVars, writerVars, events, drawerVars, assigned >>

\* the callback of findOne: an existing edge is answered with 200; otherwise
\* edges.insert(newEdge) is called
PostEdgeFound(p) ==
  /\ p \in posts /\ p.phase = "findOne"
  /\ IF \E k \in 1..Len(edgeColl) : edgeColl[k].id = p.newEdge.id
       THEN /\ posts' = posts \ {p}
            /\ postLog' = Append(postLog, [pid |-> p.pid, id |-> p.newEdge.id,
                                            status |-> 200])
       ELSE /\ posts' = (posts \ {p}) \cup {[p EXCEPT !.phase = "insert"]}
            /\ postLog' = postLog
  /\ UNCHANGED << serviceVars, edgeColl, nPosts, userVars, drawerUiVars, storeOpVars, filterVars,
                  edgeOpVars, pureVars, now, storeVars, layoutVars, mounted, flowVars,
                  edgeVars, writerVars, events, drawerVars, assigned >>

\* the insert is carried out and its callback answers: 201 with the document,
\* or 500 when the insert failed. Whether the index install.js asks for
\* (ensureIndex({fieldName: 'id', unique: true})) makes the store reject a
\* second document of an id is up to the database library: both outcomes
PostEdgeInserted(p, uniqueIndex) ==
  /\ p \in posts /\ p.phase = "insert"
  /\ edgeColl' = insert(edgeColl, p.newEdge, uniqueIndex)
  /\ posts' = posts \ {p}
  /\ postLog' = Append(postLog, [pid |-> p.pid, id |-> p.newEdge.id,
                                  status |-> IF edgeColl' = edgeColl THEN 500 ELSE 201])
  /\ UNCHANGED << serviceVars, nPosts, userVars, drawerUiVars, storeOpVars, filterVars,
                  edgeOpVars, pureVars, now, storeVars, layoutVars, mounted, flowVars,
                  edgeVars, writerVars, events, drawerVars, assigned >>

\* create requests of several clients at the server
NextEdgePosts ==
  \/ \E id \in PostIds : PostEdgeReceived(id)
  \/ \E p \in posts : PostEdgeFound(p)
  \/ \E p \in posts, uniqueIndex \in BOOLEAN : PostEdgeInserted(p, uniqueIndex)

SpecEdgePosts == Init /\ [][NextEdgePosts]_vars

\* ------------------------- PUT /api/tasks/positions/batch on the server
\* entries of a request: a stored and an unknown id, a valid and an invalid
\* position
BatchEntries == {[id |-> id, position |-> position] :
                   id \in {"t1", "t9"}, position \in {<<120, 80>>, BadPos}}
BatchBodies ==
  {[isArray |-> FALSE, updates |-> <<>>]} \cup
  {[isArray |-> TRUE, updates |-> updates] :
     updates \in UNION {[1..n -> BatchEntries] : n \in 0..MaxBatchLen}}

\* errors.push({id, error}) for the entries of the given indices, in order
RECURSIVE pushErrors(_, _, _)
pushErrors(errs, updates, i) ==
  IF i > Len(updates) THEN errs
  ELSE pushErrors(IF validPosition(updates[i].position) THEN errs
                  ELSE Append(errs, [id |-> updates[i].id,
                                     error |-> "Invalid position data"]),
                  updates, i + 1)

\* the body of a response: {success: true, updated, errors}
batchBody(updates, errs) ==
  [status |-> 200, updated |-> Len(updates) - Len(errs), errors |-> errs]

\* the broadcast with every entry of the request
broadcastList_all(updates, errs) == {i \in 1..Len(updates) : TRUE}

\* updates.filter(u => !errors.find(e => e.id === u.id)), as the indices of
\* the entries kept
broadcastList(updates, errs) ==
  {i \in 1..Len(updates) : ~\E k \in 1..Len(errs) : errs[k].id = updates[i].id}

\* the handler runs: the body is tested, then forEach goes through the
\* entries; an invalid entry is counted at once, a valid one calls tasks.update
BatchReceived(body) ==
  /\ nBatches < MaxBatches
  /\ batchPending = {}
  /\ nBatches' = nBatches + 1
  /\ batchReq' = body
  /\ LET updates == body.updates
         invalid == {i \in 1..Len(updates) : ~validPosition(updates[i].position)}
         errs == pushErrors(<<>>, updates, 1)
     IN  /\ batchPending' = (1..Len(updates)) \ invalid
         /\ completed' = Cardinality(invalid)
         /\ errors' = errs
         /\ batchFailed' = invalid
         /\ batchResponses' =
              IF ~body.isArray
                THEN << [status |-> 400, updated |-> 0, errors |-> <<>>] >>
              ELSE IF Len(updates) = 0
                THEN << [status |-> 200, updated |-> 0, errors |-> <<>>] >>
              ELSE IF Cardinality(invalid) = Len(updates)
                THEN << batchBody(updates, errs) >>
              ELSE <<>>
  /\ batchBroadcasts' = <<>>
  /\ UNCHANGED << emitVars, wsVars, edgePostVars, userVars, drawerUiVars, storeOpVars, filterVars,
                  edgeOpVars, pureVars, now, storeVars, layoutVars, mounted, flowVars,
                  edgeVars, writerVars, events, drawerVars, assigned >>

\* tasks.update for entry i is carried out and its callback runs (err: the
\* store reports an error); the last callback broadcasts and responds
BatchCallback(i, err) ==
  /\ i \in batchPending
  /\ LET updates == batchReq.updates
         update == updates[i]
         numReplaced == IF err \/ update.id \notin IdsOf(storeTasks) THEN 0 ELSE 1
         errs == IF err THEN Append(errors, [id |-> update.id, error |-> "err.message"])
                 ELSE IF numReplaced = 0
                   THEN Append(errors, [id |-> update.id, error |-> "Task not found"])
                 ELSE errors
     IN  /\ storeTasks' = IF numReplaced = 1
                            THEN MapSeq(storeTasks, LAMBDA item :
                                   IF item.id = update.id
                                     THEN [item EXCEPT !.position = update.position]
                                     ELSE item)
                            ELSE storeTasks
         /\ batchPending' = batchPending \ {i}
         /\ errors' = errs
         /\ batchFailed' = IF errs # errors THEN batchFailed \cup {i} ELSE batchFailed
         /\ completed' = completed + 1
         /\ IF completed' = Len(updates)
              THEN /\ batchBroadcasts' = Append(batchBroadcasts, broadcastList(updates, errs))
                   /\ batchResponses' = Append(batchResponses, batchBody(updates, errs))
              ELSE UNCHANGED << batchBroadcasts, batchResponses >>
  /\ UNCHANGED << emitVars, wsVars, batchReq, nBatches, edgePostVars, userVars, drawerUiVars, storeOpVars,
                  filterVars, edgeOpVars, pureVars, now, storeEdges, layoutVars, mounted,
                  flowVars, edgeVars, writerVars, events, drawerVars, assigned >>

\* batch position requests at the server, one handled after the other
NextBatch ==
  \/ \E body \in BatchBodies : BatchReceived(body)
  \/ \E i \in batchPending, err \in BOOLEAN : BatchCallback(i, err)

SpecBatch == Init /\ [][NextBatch]_vars

\* --------------------------------------------------- WebSocketService
\* the two services of the repository: the one over WebSocket (with its mock
\* mode) and the one over Socket.io
ServiceBuilds == {"WebSocket", "Socket.io"}
\* config.maxReconnectAttempts as given to the constructor (0: not given)
ConfigMaxReconnectAttempts == {0, 1, 2}
\* the reasons of a Socket.io disconnect event
DisconnectReasons == {"io client disconnect", "io server disconnect", "transport close"}

\* the constructor
WebSocketService(build, mock, config) ==
  /\ svcBuild = "none"
  /\ svcBuild' = build
  /\ mockMode' = (build = "WebSocket" /\ mock)
  /\ maxReconnectAttempts' = IF config # 0 THEN config ELSE DefaultMaxReconnectAttempts
  /\ UNCHANGED << reconnectAttempts, sockets, socket, isConnected, reconnectTimers,
                  nSockets, nAppConnects, nOpens, lastSocketEvent >>
  /\ UNCHANGED << emitVars, batchVars, edgePostVars, userVars, drawerUiVars, storeOpVars,
                  filterVars, edgeOpVars, pureVars, now, storeVars, layoutVars, mounted,
                  flowVars, edgeVars, writerVars, events, drawerVars, assigned >>

\* a reconnect without its guard
mayReconnect_always(attempts, max) == TRUE

\* the guard of a reconnect: attemptReconnect returns when reconnectAttempts >=
\* maxReconnectAttempts (WebSocket); the disconnect handler calls
\* attemptReconnect when reconnectAttempts < maxReconnectAttempts (Socket.io)
mayReconnect(attempts, max) == attempts < max

\* connect(): mock mode only simulates; the Socket.io service returns when its
\* socket is connected; otherwise a new socket is made and kept in this.socket
connect ==
  IF \/ mockMode
     \/ /\ svcBuild = "Socket.io"
        /\ \E s \in sockets : s.sid = socket /\ s.state = "connected"
    THEN UNCHANGED << sockets, socket, nSockets >>
    ELSE /\ nSockets < MaxSockets
         /\ nSockets' = nSockets + 1
         /\ sockets' = sockets \cup {[sid |-> nSockets + 1, state |-> "connecting"]}
         /\ socket' = nSockets + 1

\* attemptReconnect(), after the guard: the counter goes up and a timer that
\* calls connect() is set
attemptReconnect ==
  /\ reconnectAttempts' = reconnectAttempts + 1
  /\ reconnectTimers' = reconnectTimers + 1

\* a layout's effect calls webSocketService.connect()
LayoutConnects ==
  /\ svcBuild # "none"
  /\ nAppConnects < MaxAppConnects
  /\ nAppConnects' = nAppConnects + 1
  /\ connect
  /\ UNCHANGED << svcBuild, mockMode, maxReconnectAttempts, reconnectAttempts,
                  isConnected, reconnectTimers, nOpens, lastSocketEvent >>
  /\ UNCHANGED << emitVars, batchVars, edgePostVars, userVars, drawerUiVars, storeOpVars,
                  filterVars, edgeOpVars, pureVars, now, storeVars, layoutVars, mounted,
                  flowVars, edgeVars, writerVars, events, drawerVars, assigned >>

\* the timer of attemptReconnect fires: connect()
ReconnectTimerFires ==
  /\ reconnectTimers > 0
  /\ reconnectTimers' = reconnectTimers - 1
  /\ connect
  /\ UNCHANGED << svcBuild, mockMode, maxReconnectAttempts, reconnectAttempts,
                  isConnected, nAppConnects, nOpens, lastSocketEvent >>
  /\ UNCHANGED << emitVars, batchVars, edgePostVars, userVars, drawerUiVars, storeOpVars,
                  filterVars, edgeOpVars, pureVars, now, storeVars, layoutVars, mounted,
                  flowVars, edgeVars, writerVars, events, drawerVars, assigned >>

\* socket.onopen / socket.on('connect'): the connection is up
SocketOpens(s) ==
  /\ s \in sockets /\ s.state = "connecting"
  /\ nOpens < MaxOpens
  /\ nOpens' = nOpens + 1
  /\ sockets' = (sockets \ {s}) \cup {[s EXCEPT !.state = "connected"]}
  /\ reconnectAttempts' = 0
  /\ isConnected' = (svcBuild = "Socket.io")
  /\ lastSocketEvent' = "open"
  /\ UNCHANGED << svcBuild, mockMode, maxReconnectAttempts, socket, reconnectTimers,
                  nSockets, nAppConnects >>
  /\ UNCHANGED << emitVars, batchVars, edgePostVars, userVars, drawerUiVars, storeOpVars,
                  filterVars, edgeOpVars, pureVars, now, storeVars, layoutVars, mounted,
                  flowVars, edgeVars, writerVars, events, drawerVars, assigned >>

\* socket.onerror / socket.on('connect_error'): the error is passed on to the
\* listeners; a Socket.io socket goes on trying by itself
SocketErrors(s) ==
  /\ s \in sockets /\ s.state = "connecting"
  /\ lastSocketEvent' = "error"
  /\ UNCHANGED << svcBuild, mockMode, maxReconnectAttempts, reconnectAttempts, sockets,
                  socket, isConnected, reconnectTimers, nSockets, nAppConnects, nOpens >>
  /\ UNCHANGED << emitVars, batchVars, edgePostVars, userVars, drawerUiVars, storeOpVars,
                  filterVars, edgeOpVars, pureVars, now, storeVars, layoutVars, mounted,
                  flowVars, edgeVars, writerVars, events, drawerVars, assigned >>

\* socket.onclose of the WebSocket service: a socket that failed to connect,
\* lost its connection or was closed by disconnect() is gone; attemptReconnect
SocketCloses(s) ==
  /\ svcBuild = "WebSocket"
  /\ s \in sockets
  /\ sockets' = sockets \ {s}
  /\ lastSocketEvent' = "close"
  /\ IF mayReconnect(reconnectAttempts, maxReconnectAttempts)
       THEN attemptReconnect
       ELSE UNCHANGED << reconnectAttempts, reconnectTimers >>
  /\ UNCHANGED << svcBuild, mockMode, maxReconnectAttempts, socket, isConnected,
                  nSockets, nAppConnects, nOpens >>
  /\ UNCHANGED << emitVars, batchVars, edgePostVars, userVars, drawerUiVars, storeOpVars,
                  filterVars, edgeOpVars, pureVars, now, storeVars, layoutVars, mounted,
                  flowVars, edgeVars, writerVars, events, drawerVars, assigned >>

\* socket.on('disconnect') of the Socket.io service, for a connection lost or
\* ended by the server: after a lost transport the socket goes on trying by
\* itself, after the server's disconnect it does not
SocketDisconnects(s, reason) ==
  /\ svcBuild = "Socket.io"
  /\ s \in sockets /\ s.state = "connected"
  /\ reason # "io client disconnect"
  /\ sockets' = IF reason = "transport close"
                  THEN (sockets \ {s}) \cup {[s EXCEPT !.state = "connecting"]}
                  ELSE sockets \ {s}
  /\ isConnected' = FALSE
  /\ lastSocketEvent' = "close"
  /\ IF mayReconnect(reconnectAttempts, maxReconnectAttempts)
       THEN attemptReconnect
       ELSE UNCHANGED << reconnectAttempts, reconnectTimers >>
  /\ UNCHANGED << svcBuild, mockMode, maxReconnectAttempts, socket, nSockets,
                  nAppConnects, nOpens >>
  /\ UNCHANGED << emitVars, batchVars, edgePostVars, userVars, drawerUiVars, storeOpVars,
                  filterVars, edgeOpVars, pureVars, now, storeVars, layoutVars, mounted,
                  flowVars, edgeVars, writerVars, events, drawerVars, assigned >>

\* disconnect(): the WebSocket service closes its socket, whose onclose comes
\* later; the Socket.io service disconnects its socket, whose disconnect
\* handler runs at once with the reason io client disconnect
disconnect ==
  /\ socket # NoSocket
  /\ socket' = NoSocket
  /\ IF svcBuild = "WebSocket"
       THEN /\ sockets' = {IF s.sid = socket THEN [s EXCEPT !.state = "closing"] ELSE s :
                             s \in sockets}
            /\ UNCHANGED << isConnected, lastSocketEvent >>
       ELSE /\ sockets' = {s \in sockets : s.sid # socket}
            /\ isConnected' = FALSE
            /\ lastSocketEvent' = IF \E s \in sockets : s.sid = socket /\ s.state = "connected"
                                    THEN "close" ELSE lastSocketEvent
  /\ UNCHANGED << svcBuild, mockMode, maxReconnectAttempts, reconnectAttempts,
                  reconnectTimers, nSockets, nAppConnects, nOpens >>
  /\ UNCHANGED << emitVars, batchVars, edgePostVars, userVars, drawerUiVars, storeOpVars,
                  filterVars, edgeOpVars, pureVars, now, storeVars, layoutVars, mounted,
                  flowVars, edgeVars, writerVars, events, drawerVars, assigned >>

\* the service over the life of a page
NextSocket ==
  \/ \E build \in ServiceBuilds, mock \in BOOLEAN, config \in ConfigMaxReconnectAttempts :
       WebSocketService(build, mock, config)
  \/ LayoutConnects
  \/ ReconnectTimerFires
  \/ \E s \in sockets : SocketOpens(s)
  \/ \E s \in sockets : SocketErrors(s)
  \/ \E s \in sockets : SocketCloses(s)
  \/ \E s \in sockets, reason \in DisconnectReasons : SocketDisconnects(s, reason)
  \/ disconnect

SpecSocket == Init /\ [][NextSocket]_vars

\* ------------------------------------- WebSocketService.on / off / emit
\* the callbacks the layouts register
ListenerIds == {"a", "b", "c"}
\* what a listener does when it is called: it returns, it throws, or it
\* calls off() for itself or for another listener and returns
ListenerActs == {[act |-> "return", callback |-> "a"], [act |-> "throw", callback |-> "a"]}
                  \cup {[act |-> "off", callback |-> callback] : callback \in ListenerIds}
ListenerBehaviours == [ListenerIds -> ListenerActs]

\* callbacks.indexOf(callback): the first index of the callback, 0 for none
RECURSIVE indexOf(_, _, _)
indexOf(callbacks, callback, from) ==
  IF from > Len(callbacks) THEN 0
  ELSE IF callbacks[from] = callback THEN from
  ELSE indexOf(callbacks, callback, from + 1)

\* callbacks.splice(index, 1)
splice(callbacks, index) ==
  [k \in 1..(Len(callbacks) - 1) |-> IF k < index THEN callbacks[k] ELSE callbacks[k + 1]]

\* off(eventType, callback) on the array of the event type
offCallback(callbacks, callback) ==
  LET index == indexOf(callbacks, callback, 1)
  IN  IF index # 0 THEN splice(callbacks, index) ELSE callbacks

\* Array.prototype.forEach as emit uses it: the length is read once, index k
\* is visited when the array still has it, and the array is the live one a
\* listener's off() splices. The result is the array and the calls made
RECURSIVE forEach(_, _, _, _, _)
forEach(callbacks, k, len, calls, behaviour) ==
  IF k > len THEN [listeners |-> callbacks, invoked |-> calls]
  ELSE IF k > Len(callbacks) THEN forEach(callbacks, k + 1, len, calls, behaviour)
  ELSE LET callback == callbacks[k]
           does == behaviour[callback]
       IN  forEach(IF does.act = "off" THEN offCallback(callbacks, does.callback)
                   ELSE callbacks,
                   k + 1, len, Append(calls, callback), behaviour)

\* on(eventType, callback)
on(callback) ==
  /\ nListenerOps < MaxListenerOps
  /\ nListenerOps' = nListenerOps + 1
  /\ listeners' = Append(listeners, callback)
  /\ UNCHANGED << atStart, invoked >>
  /\ UNCHANGED << batchVars, wsVars, edgePostVars, userVars, drawerUiVars, storeOpVars,
                  filterVars, edgeOpVars, pureVars, now, storeVars, layoutVars, mounted,
                  flowVars, edgeVars, writerVars, events, drawerVars, assigned >>

\* off(eventType, callback), called outside an emit
off(callback) ==
  /\ nListenerOps < MaxListenerOps
  /\ nListenerOps' = nListenerOps + 1
  /\ listeners' = offCallback(listeners, callback)
  /\ UNCHANGED << atStart, invoked >>
  /\ UNCHANGED << batchVars, wsVars, edgePostVars, userVars, drawerUiVars, storeOpVars,
                  filterVars, edgeOpVars, pureVars, now, storeVars, layoutVars, mounted,
                  flowVars, edgeVars, writerVars, events, drawerVars, assigned >>

\* emit(eventType, data), with listeners that behave as given
emit(behaviour) ==
  /\ nListenerOps < MaxListenerOps
  /\ nListenerOps' = nListenerOps + 1
  /\ LET done == forEach(listeners, 1, Len(listeners), <<>>, behaviour)
     IN  /\ listeners' = done.listeners
         /\ invoked' = done.invoked
  /\ atStart' = listeners
  /\ UNCHANGED << batchVars, wsVars, edgePostVars, userVars, drawerUiVars, storeOpVars,
                  filterVars, edgeOpVars, pureVars, now, storeVars, layoutVars, mounted,
                  flowVars, edgeVars, writerVars, events, drawerVars, assigned >>

\* listeners registered, removed and called
NextEmit ==
  \/ \E callback \in ListenerIds : on(callback)
  \/ \E callback \in ListenerIds : off(callback)
  \/ \E behaviour \in ListenerBehaviours : emit(behaviour)

SpecEmit == Init /\ [][NextEmit]_vars

\* the drawer: select, edit, change the classification, close, auto-save
NextDrawer ==
  \/ Startup
  \/ \E id \in TaskIds : handleNodeClick(id)
  \/ \E value \in StatusOptions(editedTask.task_type) : handleFieldChange("status", value)
  \/ \E value \in UserIds \cup {NoUser} : handleFieldChange("assignedTo", value)
  \/ \E newTaskType \in {"task", "incident"} : handleTaskTypeChange(newTaskType)
  \/ handleTaskDrawerClose
  \/ saveTimeout
  \/ handleTaskUpdate

SpecDrawer == Init /\ [][NextDrawer]_vars

\* ================================================================== claims

\* a step of handleTaskUpdate: the drawer's response is consumed
PatchStep == drawerResp # NoTask /\ drawerResp' = NoTask

\* C1: every rendered node sits at the last position assigned to it, by a
\* local drag-end or, for a node that was never positioned locally, by the
\* load that first rendered it; in particular no reload moves a rendered
\* node back to an older or default position.
C1_PositionIsLastAssigned ==
  \A i \in 1..Len(nodes) : nodes[i].position = assigned[nodes[i].id]

\* C2: every batch write carries the position of every node whose drag-end
\* occurred since the previous write.
C2_WriteCarriesEveryDragEnd ==
  \A k \in 1..Len(writeLog) : \A n \in TaskIds :
     writeLog[k].due[n] # NoPos =>
       [id |-> n, position |-> writeLog[k].due[n]] \in writeLog[k].updates

\* the scenario of C3: three drag-ends of one node, 100 ms apart, and the
\* view stays mounted
C3_Scenario ==
  /\ Len(dragLog) = 3
  /\ dragLog[1].id = dragLog[2].id /\ dragLog[2].id = dragLog[3].id
  /\ dragLog[2].time = dragLog[1].time + 1
  /\ dragLog[3].time = dragLog[1].time + 2
  /\ mounted

C4_SingleTimer == Cardinality(timers) <= 1

\* C5: no position write is sent after the view was torn down.
C5_NoWriteAfterTeardown ==
  \A k \in 1..Len(writeLog) : writeLog[k].mounted

\* C6: a deletion patch for a rendered, selected node removes the node and
\* clears the selection.
C6_DeletionPatchRemoves ==
  [][(/\ PatchStep
      /\ drawerResp.deleted
      /\ mounted
      /\ drawerResp.id \in IdsOf(nodes)
      /\ selectedTask.id = drawerResp.id)
     => (drawerResp.id \notin IdsOf(nodes') /\ selectedTask' = NoTask)]_vars

\* C7: a new-item patch for an identity that is not rendered appends exactly
\* one node with that identity, starts no load, and adds or removes no
\* other node.
C7_NewPatchAppends ==
  [][(/\ PatchStep
      /\ drawerResp.isNew
      /\ mounted
      /\ drawerResp.id \notin IdsOf(nodes))
     => (/\ Len(nodes') = Len(nodes) + 1
         /\ nodes'[Len(nodes')].id = drawerResp.id
         /\ \A i \in 1..Len(nodes) : nodes'[i].id = nodes[i].id
         /\ loads' = loads)]_vars

\* C8: a single-item patch for item A leaves every other rendered node (its
\* data and its position) and the edge collection as they were.
C8_PatchIsolation ==
  [][PatchStep =>
       /\ edges' = edges
       /\ Len(nodes') >= Len(nodes)
       /\ \A i \in 1..Len(nodes) :
            nodes[i].id # drawerResp.id => nodes'[i] = nodes[i]]_vars

\* C8 witness: a patch has been applied to one rendered node while another
\* node is rendered
C8_Witness ==
  /\ lastUpdatedTask # NoTask
  /\ \E i, j \in 1..Len(nodes) :
       /\ nodes[i].id = lastUpdatedTask.id
       /\ nodes[i].data = nodeData(lastUpdatedTask, users)
       /\ nodes[j].id # lastUpdatedTask.id

\* C9: a connect gesture leaves its new edge in the local edge collection,
\* before the create request is answered.
C9_ConnectInsertsLocally ==
  [][\A r \in edgeReqs' \ edgeReqs : \E e \in edges' : e.id = r.edge.id]_vars

EdgeOpFailed(kind) ==
  /\ Len(edgeOpLog') > Len(edgeOpLog)
  /\ Last(edgeOpLog').kind = kind
  /\ ~Last(edgeOpLog').ok

\* C11: an edge delete, from the edge modal or from the diagram, takes the
\* edge out of the local edges in the step that sends the delete request, and
\* a failed delete request leaves the local edges as they are.
C11_DeleteRemovesLocallyFirst ==
  [][/\ \A r \in edgeOps' \ edgeOps :
          r.kind = "delete" => ~\E e \in edges' : e.id = r.id
     /\ EdgeOpFailed("delete") => edges' = edges]_vars

\* C12: an edge update puts the new style on the local edge in the step that
\* sends the update request, and a failed update request leaves the local
\* edges as they are.
C12_UpdateIsOptimistic ==
  [][/\ \A r \in edgeOps' \ edgeOps :
          r.kind = "update" => \E e \in edges' : e.id = r.id /\ e.style = r.edge.style
     /\ EdgeOpFailed("update") => edges' = edges]_vars

\* C13: the identity a connect gesture gives its edge differs from the
\* identity of every edge of an earlier connect gesture, rendered, in flight
\* or stored.
C13_ConnectIdsAreFresh ==
  [][\A r \in edgeReqs' \ edgeReqs :
       \A e \in edges \cup storeEdges \cup {q.edge : q \in edgeReqs} :
          e.id # r.edge.id]_vars

\* a load has just failed: a request that was not answered yet is gone
LoadFailStep == \E l \in loads : l.phase = "sent" /\ loads' = loads \ {l}

\* an effect (not the retry button) has just started a load
EffectLoadStep == \E l \in loads' \ loads : ~l.forced /\ l.phase = "sent"

\* C14: when a load fails, the error state is set with the spinner off (the
\* error panel with its retry button is rendered), and the node and edge
\* collections are what they were before the failure.
C14_FailedLoadKeepsGraph ==
  [][LoadFailStep =>
       /\ error' /\ ~loading'
       /\ nodes' = nodes
       /\ edges' = edges]_vars

\* C14 witness: a reload has failed while nodes were rendered; the error panel
\* is up and the nodes are kept
C14_Witness ==
  /\ mounted /\ error /\ ~loading
  /\ Len(nodes) > 0
  /\ loads = {}

\* C15 as stated: an effect starts a full reload only when no drawer commit
\* awaits its application as a single-item patch, and the node collection is
\* empty or no single-item update was supplied.
C15_ReloadOnlyWithoutPendingPatch ==
  [][EffectLoadStep =>
       /\ drawerResp' = NoTask
       /\ (Len(nodes') = 0 \/ lastUpdatedTask' = NoTask)]_vars

\* C15 amended: an effect starts a full reload only when the node collection
\* is empty or no single-item update was supplied; a drawer commit in flight
\* does not hold the reload back.
C15_ReloadOnlyWhenEmptyOrNoUpdate ==
  [][EffectLoadStep => (Len(nodes') = 0 \/ lastUpdatedTask' = NoTask)]_vars

\* C15 witness: a reload started by an effect is in flight over rendered
\* nodes, and a drawer commit awaits its application
C15_Witness ==
  /\ \E l \in loads : ~l.forced /\ l.phase = "sent"
  /\ Len(nodes) > 0
  /\ lastUpdatedTask = NoTask
  /\ drawerResp # NoTask

\* C16: once the loads that the changes of the visibility filter started are
\* done, the rendered nodes are those of the items the current filter lets
\* through.
C16_FilterChangeReloads ==
  (mounted /\ loads = {} /\ ~loading /\ ~error)
    => IdsOf(nodes) = IdsOf(filteredTasks(showIncidents, tasks))

\* the ids of a node list, in order
IdSeq(ns) == [i \in 1..Len(ns) |-> ns[i].id]

\* C17: reconcile(previous, fresh) has one node per fresh node; a fresh node
\* whose id occurs in previous gets the position of a previous node of that
\* id, every other fresh node keeps its own position, and id and data are
\* those of the fresh node.
C17_ReconcileKeepsPositions ==
  pureIn.fn = "reconcile" =>
    /\ Len(pureOut) = Len(pureIn.fresh)
    /\ \A i \in 1..Len(pureIn.fresh) :
         LET f == pureIn.fresh[i]
             hits == {j \in 1..Len(pureIn.previous) : pureIn.previous[j].id = f.id}
         IN  /\ pureOut[i].id = f.id
             /\ pureOut[i].data = f.data
             /\ IF hits = {}
                  THEN pureOut[i].position = f.position
                  ELSE \E j \in hits : pureOut[i].position = pureIn.previous[j].position

\* C17 witness: a fresh node at the default position whose id is rendered
\* elsewhere came out at the rendered position, next to a fresh node that
\* is not rendered and kept its own
C17_Witness ==
  /\ pureIn.fn = "reconcile"
  /\ \E i, k \in 1..Len(pureIn.fresh) :
       /\ pureIn.fresh[i].position = DefaultPos
       /\ pureOut[i].position = <<50, 60>>
       /\ pureIn.fresh[k].id \notin IdsOf(pureIn.previous)
       /\ pureOut[k].position = pureIn.fresh[k].position

\* a load has just been applied
LoadApplied(l) == l \in loads /\ l.phase = "ok" /\ l \notin loads'

\* C18: after a load is applied the node collection has the ids of the
\* freshly projected nodes, in their order.
C18_ReloadTakesFreshIds ==
  [][\A l \in loads :
       LoadApplied(l) =>
         IdSeq(nodes') =
           IdSeq(createNodes(filteredTasks(l.showIncidents, l.items), l.flowUsers))]_vars

\* C18 witness: an item that was rendered earlier is not rendered after a
\* reload whose data lacked it
C18_Witness ==
  /\ mounted /\ ~loading
  /\ \E n \in TaskIds : assigned[n] # NoPos /\ n \notin IdsOf(nodes)

\* C19: a projected edge without style has the default colour and width; an
\* explicit colour is kept; the projected width is the default width
\* whatever the edge carries.
C19_EdgeStyleForced ==
  pureIn.fn = "createEdge" =>
    /\ ~Has(pureIn.edge, "style") => pureOut.style.stroke = DefaultStroke
    /\ (Has(pureIn.edge, "style") /\ Has(pureIn.edge.style, "stroke"))
         => pureOut.style.stroke = pureIn.edge.style.stroke
    /\ pureOut.style.strokeWidth = DefaultStrokeWidth

\* C20: the projected node has the position of its item, a missing position
\* included.
C20_PositionVerbatim ==
  pureIn.fn = "createNode" => pureOut.position = pureIn.item.position

\* C21: after projection and the grid pass, the node of an item sits at the
\* item's stored position or, when the item has none, at the grid slot of its
\* index: ((index mod 4) * 300, floor(index / 4) * 200).
C21_StoredOrGridSlot ==
  pureIn.fn = "layout" =>
    /\ Len(pureOut) = Len(pureIn.items)
    /\ \A i \in 1..Len(pureIn.items) :
         pureOut[i].position =
           IF pureIn.items[i].position # NoPos
             THEN pureIn.items[i].position
             ELSE gridSlot(i)

\* a connect gesture has just been made without a source or without a target
BadConnectStep ==
  /\ nConnects' = nConnects + 1
  /\ (lastConnect'.source = NoId \/ lastConnect'.target = NoId)

\* C22: a connect gesture that lacks its source or its target changes neither
\* the local edges nor the create requests in flight: no request is sent.
C22_BadConnectRejected ==
  [][BadConnectStep => (edges' = edges /\ edgeReqs' = edgeReqs)]_vars

\* a drag-end has just arrived with a coordinate that is not a number
BadDragStep ==
  /\ Len(dragLog') > Len(dragLog)
  /\ ~validPosition(Last(dragLog').position)

\* C23: a drag-end whose coordinate is not a number schedules no timer and
\* changes no node, and no position write carries such a position.
C23_BadDragRejected ==
  [][/\ BadDragStep => (timers' = timers /\ nodes' = nodes)
     /\ \A k \in 1..Len(writeLog') :
          \A u \in writeLog'[k].updates : validPosition(u.position)]_vars

\* the scenario of C25: one connect gesture from t1 to t2 and, in the same
\* tick after it, one drag-end of t1 to (120,80); nothing else was gestured
C25_Scenario ==
  /\ nConnects = 1
  /\ lastConnect.source = "t1" /\ lastConnect.target = "t2"
  /\ Len(dragLog) = 1
  /\ dragLog[1].id = "t1" /\ dragLog[1].position = <<120, 80>>
  /\ dragLog[1].connects = 1
  /\ dragLog[1].time = lastConnect.time

\* C25: after a connect from t1 to t2 followed at once by a drag-end of t1 to
\* (120,80), the local edges are exactly one edge t1 -> t2, at most one
\* position write is ever sent, none before the quiet period has passed, it
\* carries t1 at (120,80) only, and once no timer is pending exactly one was
\* sent.
C25_ConnectAndDragIndependent ==
  C25_Scenario =>
    /\ Cardinality(edges) = 1
    /\ \A e \in edges : e.source = "t1" /\ e.target = "t2"
    /\ Cardinality(edgeReqs) + Cardinality({e \in storeEdges : e.source = "t1"})
          + Len(createFailed) = 1
    /\ Len(writeLog) <= 1
    /\ \A k \in 1..Len(writeLog) :
         /\ writeLog[k].time >= dragLog[1].time + QuietPeriod
         /\ writeLog[k].updates = {[id |-> "t1", position |-> <<120, 80>>]}
    /\ (timers = {} => Len(writeLog) = 1)

\* C25 witness: the scenario has run to its end: the edge is stored and
\* rendered, the one write was sent and stored
C25_Witness ==
  /\ C25_Scenario
  /\ timers = {} /\ writesInFlight = {} /\ edgeReqs = {}
  /\ Len(writeLog) = 1
  /\ \E e \in storeEdges : e.source = "t1" /\ e.target = "t2" /\ e \in edges
  /\ \E i \in 1..Len(storeTasks) :
       storeTasks[i].id = "t1" /\ storeTasks[i].position = <<120, 80>>

\* nothing is in flight that could still change the rendered nodes: no load,
\* no drawer response, no broadcast, and the diagram is on screen
Settled ==
  /\ Ready
  /\ loads = {}
  /\ drawerResp = NoTask
  /\ events = {}

\* C26: an overwrite of a single-item patch by a reload whose snapshot
\* predates it does not last: once nothing is in flight any more, the node of
\* the item patched last carries the data of that patch.
C26_OverwriteIsTransient ==
  (Settled /\ lastUpdatedTask # NoTask /\ ~lastUpdatedTask.deleted) =>
    \A i \in 1..Len(nodes) :
       nodes[i].id = lastUpdatedTask.id => nodes[i].data.rev = lastUpdatedTask.rev

\* the cached name agrees with the assignment: the name of the assigned user,
\* or an empty name or the label when nobody is assigned
NameInSync(assigneeName, assignedTo) ==
  IF assignedTo = NoUser
    THEN assigneeName \in {"", Unassigned}
    ELSE assigneeName = UserNames[assignedTo]

\* C28: the cached assignee name of every item of the item list agrees with
\* the item's assignment, and so does, once nothing is in flight, the name
\* its rendered node shows.
C28_AssigneeNameInSync ==
  /\ \A j \in 1..Len(tasks) : NameInSync(tasks[j].assigneeName, tasks[j].assignedTo)
  /\ Settled =>
       \A i \in 1..Len(nodes) : \A j \in 1..Len(tasks) :
          nodes[i].id = tasks[j].id =>
            NameInSync(nodes[i].data.assigneeName, tasks[j].assignedTo)

\* C24: once the drawer was closed over edits it had not saved, no update
\* request is sent and the item list and the nodes stay as they are, also when
\* the auto-save timer was pending at the close
C24_CloseDiscardsEdits ==
  [][closedDirty => (nPatches' = nPatches /\ tasks' = tasks /\ nodes' = nodes)]_vars

\* a step of handleTaskTypeChange: the classification of editedTask changes
TypeChangeStep ==
  /\ editedTask # NoTask /\ editedTask' # NoTask
  /\ editedTask'.id = editedTask.id
  /\ editedTask'.task_type # editedTask.task_type
  /\ nEdits' = nEdits + 1

\* C29: after a change of the classification the status is one of the new
\* classification: backlog, pending, in_progress, completed for a task, and
\* open, in_progress, resolved, closed for an incident
C29_StatusInDomain ==
  [][TypeChangeStep => editedTask'.status \in StatusOptions(editedTask'.task_type)]_vars

\* the completed task t1 was made an incident, and its status was adjusted
C29_Witness ==
  /\ editedTask # NoTask
  /\ editedTask.id = "t1" /\ editedTask.task_type = "incident"
  /\ editedTask.status = "resolved"
  /\ nEdits = 2

patchData(updatedTask) ==
  [id |-> updatedTask.id, task_type |-> updatedTask.task_type, rev |-> updatedTask.rev,
   status |-> updatedTask.status, position |-> updatedTask.position,
   deleted |-> updatedTask.deleted, isNew |-> updatedTask.isNew,
   assignedTo |-> updatedTask.assignedTo,
   assigneeName |-> IF updatedTask.assignedTo = NoUser
                      THEN Unassigned ELSE UserNames[updatedTask.assignedTo],
   archived |-> updatedTask.archived,
   isIncident |-> (updatedTask.task_type = "incident")]

UpdatePatchStep ==
  /\ PatchStep
  /\ mounted
  /\ ~drawerResp.deleted /\ ~drawerResp.isNew
  /\ drawerResp.id \in IdsOf(nodes)

\* C31: a patch that is neither a deletion nor a creation, for a rendered
\* item, leaves the number, the order and the positions of the nodes as they
\* were, and the data of the item's node are the fields of the patch with the
\* assignee name looked up in the current users and isIncident derived from
\* the classification
C31_PatchReplacesDataInPlace ==
  [][UpdatePatchStep =>
       /\ Len(nodes') = Len(nodes)
       /\ \A i \in 1..Len(nodes) :
            /\ nodes'[i].id = nodes[i].id
            /\ nodes'[i].position = nodes[i].position
            /\ nodes[i].id = drawerResp.id =>
                 /\ DOMAIN nodes'[i].data = DOMAIN drawerResp \cup {"isIncident"}
                 /\ \A field \in DOMAIN drawerResp \ {"assigneeName", "isIncident"} :
                      nodes'[i].data[field] = drawerResp[field]
                 /\ nodes'[i].data.isIncident = (drawerResp.task_type = "incident")
                 /\ nodes'[i].data.assigneeName =
                      IF drawerResp.assignedTo \in users
                        THEN UserNames[drawerResp.assignedTo] ELSE Unassigned]_vars

\* the task t1 was made an incident in the drawer and its patch was applied:
\* the node shows it at the position it had
C31_Witness ==
  /\ lastUpdatedTask # NoTask /\ lastUpdatedTask.id = "t1"
  /\ lastUpdatedTask.task_type = "incident"
  /\ Len(nodes) = 2
  /\ nodes[1].id = "t1" /\ nodes[1].position = <<50, 60>>
  /\ nodes[1].data.isIncident /\ nodes[1].data.status = lastUpdatedTask.status

\* C32: once every load has completed and the most recently started one
\* succeeded, no error is displayed and the loading indicator is off
C32_OverlappingLoadsEndReady ==
  (mounted /\ loads = {} /\ loadOutcome = "ok") => (~error /\ ~loading)

\* the rendered node of the item shows status completed
NodeShowsCompleted(id) ==
  \E i \in 1..Len(nodes) : nodes[i].id = id /\ nodes[i].data.status = "completed"

\* the task_completed event of the item is on its way to a Layout whose
\* diagram renders the item
EventForRendered(id) ==
  id \in events /\ ~layoutLoading /\ mounted /\ id \in IdsOf(nodes)

\* C33: once a task_completed event for a rendered task is delivered, the node
\* of that task eventually shows status completed
C33_CompletionReachesNode ==
  \A id \in CompletedIds : EventForRendered(id) ~> NodeShowsCompleted(id)

\* a delete has taken the edge of this id out of the local edges: a removal
\* in the diagram does so when it is made, a delete of the modal when its
\* request has succeeded
RemovedByDelete(edgeId) ==
  \/ \E r \in edgeOps : r.kind = "delete" /\ r.via = "diagram" /\ r.id = edgeId
  \/ \E k \in 1..Len(edgeOpLog) :
       /\ edgeOpLog[k].kind = "delete" /\ edgeOpLog[k].id = edgeId
       /\ (edgeOpLog[k].ok \/ edgeOpLog[k].via = "diagram")

\* C34: an edge that a delete has removed from the local edges and that is
\* not among them comes back only in a step of a connect gesture or of a
\* reload; the answer to an update request does not bring it back
C34_DeletedEdgeStaysDeleted ==
  [][\A e \in edges' :
       (RemovedByDelete(e.id) /\ ~\E f \in edges : f.id = e.id)
         => (nConnects' = nConnects + 1 \/ \E l \in loads : l \notin loads')]_vars

\* C35: when the create request of an edge is answered after the edge was
\* removed locally and its delete request was answered, the store holds no
\* edge of that id
C35_DeletedEdgeLeavesStore ==
  [][\A r \in edgeReqs \ edgeReqs' :
       (RemovedByDelete(r.edge.id) /\ ~\E o \in edgeOps : o.id = r.edge.id)
         => ~\E e \in storeEdges' : e.id = r.edge.id]_vars

\* C36: the edges collection never holds two documents with the same id, and
\* a create request whose id exists is answered with the existing edge (200),
\* never with a failed insert
C36_EdgeIdsUnique ==
  /\ \A j, k \in 1..Len(edgeColl) : edgeColl[j].id = edgeColl[k].id => j = k
  /\ \A k \in 1..Len(postLog) : postLog[k].status \in {200, 201}

\* C37: a batch position request is answered exactly once when all its
\* entries have completed and not before; the answer's updated count is the
\* number of entries less those that failed, and a broadcast lists no entry
\* that failed
C37_BatchAnsweredOnce ==
  /\ Len(batchResponses) <= 1
  /\ (nBatches > 0 /\ batchPending = {}) <=> Len(batchResponses) = 1
  /\ \A k \in 1..Len(batchResponses) :
       batchResponses[k].status = 200 =>
         batchResponses[k].updated = Len(batchReq.updates) - Cardinality(batchFailed)
  /\ \A k \in 1..Len(batchBroadcasts) : batchBroadcasts[k] \cap batchFailed = {}

\* a request with an invalid entry, an entry of unknown id and an entry that
\* was written has been answered and broadcast
C37_Witness ==
  /\ Len(batchResponses) = 1
  /\ Len(batchBroadcasts) = 1 /\ batchBroadcasts[1] # {}
  /\ \E i, j \in batchFailed :
       /\ ~validPosition(batchReq.updates[i].position)
       /\ validPosition(batchReq.updates[j].position)
       /\ batchReq.updates[j].id = "t9"

\* C38: the reconnect counter never exceeds maxReconnectAttempts and is 0
\* after a connection came up; once the counter is at maxReconnectAttempts no
\* step sets another reconnect timer
C38_ReconnectsBounded ==
  /\ [](reconnectAttempts <= maxReconnectAttempts)
  /\ [](lastSocketEvent = "open" => reconnectAttempts = 0)
  /\ [][reconnectAttempts >= maxReconnectAttempts =>
          reconnectTimers' <= reconnectTimers]_vars

\* a socket closed with the counter at maxReconnectAttempts, after the
\* default number of attempts, and no reconnect is pending
C38_Witness ==
  /\ maxReconnectAttempts = DefaultMaxReconnectAttempts
  /\ reconnectAttempts = maxReconnectAttempts
  /\ lastSocketEvent = "close"
  /\ reconnectTimers = 0
  /\ sockets = {}

\* how often a callback occurs in a list
Occurrences(callbacks, callback) ==
  Cardinality({k \in 1..Len(callbacks) : callbacks[k] = callback})

\* C39: an emit calls every listener as often as it was registered when the
\* emit started (once for a listener registered once, never for a listener
\* that was removed before), whatever the listeners do when called
C39_EmitCallsEveryListenerOnce ==
  \A callback \in ListenerIds :
    Occurrences(invoked, callback) = Occurrences(atStart, callback)

====
